---------------------------- MODULE Spec2Model ----------------------------
(***************************************************************************)
(* PI Analytics Dashboard: the preprocessing pipeline                      *)
(* (modules/preprocessing.py), the rank-string codec and the top-10        *)
(* dropdown (modules/wc_analytics.py, modules/driver_analytics.py) and the *)
(* KPI block (wc_analytics.generate_stat_block_values); the charts and     *)
(* tables of the two tabs and the callbacks that draw them (main.py); the  *)
(* loader wc_data.loadData; the reading-guide popups (main.py).            *)
(*                                                                         *)
(* A Python str is a tuple of one-character strings.  A timestamp is a     *)
(* record [day, sec, ms]: days since 2000-01-01, second of the day,        *)
(* millisecond of the second.  A table (DataFrame) is a sequence of rows;  *)
(* a row is a function from column labels to cell values, with two extra   *)
(* keys: "nulls", the set of columns whose cell is NaN/None/NaT, and       *)
(* "src", the index label of the row: the position it had in the raw       *)
(* table (pd.read_sql numbers the rows, and no step renumbers them).       *)
(***************************************************************************)
EXTENDS Integers, Sequences, FiniteSets, TLC

VARIABLES
  cols,        \* column labels of the raw table handed to preprocess_task_data
  raw,         \* the raw table (result of pd.read_sql)
  phase,       \* "raw" | "loaded" | "raised": where the load path is
  exc,         \* the exception preprocess_task_data raised ("none" if none)
  tasks,       \* the Task Table preprocess_task_data returned
  out,         \* result of the last aggregation call on the Task Table
  ms,          \* argument of _convert_ms_to_s
  total_secs,  \* its result
  rank,        \* rank handed to the encoder of get_top_10_tasks_dropdown
  part_no,     \* part number handed to the encoder
  task_info,   \* the encoded option string
  parsed,      \* result of _parse_task_info(task_info)
  global_data, \* wc_data.global_data: the dict loadData publishes into
  loader,      \* the running call of wc_data.loadData: its position and locals
  guide        \* per tab: the reading-guide buttons' n_clicks and the popup's style

vars == <<cols, raw, phase, exc, tasks, out, ms, total_secs,
          rank, part_no, task_info, parsed, global_data, loader, guide>>

pipelineVars == <<cols, raw, phase, exc, tasks, out>>
durationVars == <<ms, total_secs>>
rankVars     == <<rank, part_no, task_info, parsed>>
appVars      == <<global_data, loader, guide>>

(***************************************************************************)
(* Bounds of the model.                                                    *)
(***************************************************************************)
MaxDurLen  == 5    \* longest duration text enumerated char by char
MaxPartLen == 3    \* longest part number enumerated char by char
MaxRows    == 3    \* rows of a raw table
MaxDrivers == 11   \* distinct drivers of a raw table
MaxClicks  == 3    \* clicks on one button of a reading guide

(***************************************************************************)
(* Python str and int.                                                     *)
(***************************************************************************)
DigitSeq == <<"0", "1", "2", "3", "4", "5", "6", "7", "8", "9">>
Digits   == {DigitSeq[i] : i \in 1..10}

DigitVal(c) == (CHOOSE i \in 1..10 : DigitSeq[i] = c) - 1

IsDigits(s) == Len(s) >= 1 /\ \A i \in 1..Len(s) : s[i] \in Digits

RECURSIVE DecVal(_)
DecVal(s) == IF s = <<>> THEN 0
             ELSE 10 * DecVal(SubSeq(s, 1, Len(s) - 1)) + DigitVal(s[Len(s)])

\* int(text): the texts of the model hold no sign, blank or underscore, so
\* int accepts exactly the non-empty digit strings.
PyInt(s) == IF IsDigits(s) THEN [exc |-> "none", v |-> DecVal(s)]
            ELSE [exc |-> "ValueError", v |-> 0]

\* str(n) for n >= 0
RECURSIVE PyStr(_)
PyStr(n) == IF n < 10 THEN <<DigitSeq[n + 1]>>
            ELSE PyStr(n \div 10) \o <<DigitSeq[(n % 10) + 1]>>

\* index of the first occurrence of character c in s, 0 if none
FirstIndex(s, c) ==
  IF \E i \in 1..Len(s) : s[i] = c
  THEN CHOOSE i \in 1..Len(s) : s[i] = c /\ \A j \in 1..(i - 1) : s[j] # c
  ELSE 0

\* s.split(c)[0]
SplitHead(s, c) == IF FirstIndex(s, c) = 0 THEN s
                   ELSE SubSeq(s, 1, FirstIndex(s, c) - 1)

\* c.join(s.split(c)[1:]): what follows the first c
SplitRest(s, c) == SubSeq(s, FirstIndex(s, c) + 1, Len(s))

\* all strings over alphabet A of length at most n
StrUpTo(A, n) == UNION {[1..k -> A] : k \in 0..n}

\* the work-center label 'Assembly <n>'
Assembly(n) == <<"A", "s", "s", "e", "m", "b", "l", "y", " ">> \o PyStr(n)

(***************************************************************************)
(* preprocessing._convert_ms_to_s, for a text that is not NaN (the NaN     *)
(* branch is unreachable from preprocess_task_data, which calls dropna     *)
(* first).  min = int(temp[0]) is evaluated before temp[1] is read, so a   *)
(* text with non-numeric minutes raises ValueError even without a colon.   *)
(***************************************************************************)
RoundingConvert(text) ==
  LET min   == PyInt(SplitHead(text, ":"))
      temp1 == SplitHead(SplitRest(text, ":"), ":")
      sec   == PyInt(SplitHead(temp1, "."))
      frac  == SplitRest(temp1, ".")
      up    == IF FirstIndex(temp1, ".") # 0 /\ frac # <<>> /\ frac[1] \in {"5", "6", "7", "8", "9"}
               THEN 1 ELSE 0
  IN  IF min.exc # "none" THEN min
      ELSE IF FirstIndex(text, ":") = 0 THEN [exc |-> "IndexError", v |-> 0]
      ELSE IF sec.exc # "none" THEN sec
      ELSE [exc |-> "none", v |-> min.v * 60 + sec.v + up]

_convert_ms_to_s(text) ==
  LET min   == PyInt(SplitHead(text, ":"))
      temp1 == SplitHead(SplitRest(text, ":"), ":")
      sec   == PyInt(SplitHead(temp1, "."))
  IN  IF min.exc # "none" THEN min
      ELSE IF FirstIndex(text, ":") = 0 THEN [exc |-> "IndexError", v |-> 0]
      ELSE IF sec.exc # "none" THEN sec
      ELSE [exc |-> "none", v |-> min.v * 60 + sec.v]

(***************************************************************************)
(* The rank-string codec.  get_top_10_tasks_dropdown encodes               *)
(* str(rank+1) + '. ' + task; _parse_task_info (the same text in           *)
(* wc_analytics and driver_analytics) decodes with two regular             *)
(* expressions.                                                            *)
(***************************************************************************)
EncodeTask(k, task) == PyStr(k) \o <<".", " ">> \o task

\* '.' of a Python regular expression matches any character but a newline
RegexDot(c) == c # "\n"

\* (?<=[\d+]. ) holds at 0-based offset p of s: the three characters before
\* p are one of [digits or '+'], any character, a blank
LookBehind(s, p) ==
  /\ p >= 3
  /\ s[p - 2] \in Digits \cup {"+"}
  /\ RegexDot(s[p - 1])
  /\ s[p] = " "

\* the longest prefix of s on which every character matches '.'
RECURSIVE DotStar(_)
DotStar(s) == IF s = <<>> \/ ~RegexDot(s[1]) THEN <<>>
              ELSE <<s[1]>> \o DotStar(Tail(s))

\* re.search(r'\d+', s)[0]: the leftmost, longest run of digits
RECURSIVE DigitRun(_)
DigitRun(s) == IF s = <<>> \/ s[1] \notin Digits THEN <<>>
               ELSE <<s[1]>> \o DigitRun(Tail(s))

SingleDigitParse(info) ==
  IF Len(info) < 3 THEN [exc |-> "TypeError", task_name |-> <<>>, rank |-> <<>>]
  ELSE [exc |-> "none", task_name |-> SubSeq(info, 4, Len(info)),
        rank |-> <<info[1]>>]

_parse_task_info(info) ==
  LET hits == {p \in 0..Len(info) : LookBehind(info, p)}
      p0   == CHOOSE p \in hits : \A q \in hits : p <= q
      digs == {i \in 1..Len(info) : info[i] \in Digits}
      d0   == CHOOSE i \in digs : \A j \in digs : i <= j
  IN  IF hits = {} \/ digs = {}
      THEN [exc |-> "TypeError", task_name |-> <<>>, rank |-> <<>>]
      ELSE [exc |-> "none",
            task_name |-> DotStar(SubSeq(info, p0 + 1, Len(info))),
            rank |-> DigitRun(SubSeq(info, d0, Len(info)))]

(***************************************************************************)
(* Timestamps (pandas Timestamp) and the calendar.                         *)
(***************************************************************************)
Ts(d, s, m) == [day |-> d, sec |-> s, ms |-> m]

\* a >= b
TsGE(a, b) ==
  \/ a.day > b.day
  \/ a.day = b.day /\ a.sec > b.sec
  \/ a.day = b.day /\ a.sec = b.sec /\ a.ms >= b.ms

\* Series.dt.floor('d'); Timestamp.replace(hour=0, minute=0, second=0, microsecond=0)
FloorDay(t) == Ts(t.day, 0, 0)

\* (a - b).dt.total_seconds().astype('int64'): the difference as a float of
\* seconds, then truncated toward zero
TotalSecondsInt(a, b) ==
  LET dsec == (a.day - b.day) * 86400 + (a.sec - b.sec)
      dms  == a.ms - b.ms
  IN  IF dsec > 0 /\ dms < 0 THEN dsec - 1
      ELSE IF dsec < 0 /\ dms > 0 THEN dsec + 1
      ELSE dsec

\* t - pd.Timedelta(n, unit='D')
MinusDays(t, n) == Ts(t.day - n, t.sec, t.ms)

\* proleptic Gregorian calendar: [y, m, d] of day number n (0 is 2000-01-01)
CivilFromDays(n) ==
  LET z   == n + 730425
      era == z \div 146097
      doe == z % 146097
      yoe == (doe - (doe \div 1460) + (doe \div 36524) - (doe \div 146096)) \div 365
      doy == doe - (365 * yoe + (yoe \div 4) - (yoe \div 100))
      mp  == (5 * doy + 2) \div 153
      mm  == IF mp < 10 THEN mp + 3 ELSE mp - 9
  IN  [y |-> yoe + era * 400 + (IF mm <= 2 THEN 1 ELSE 0),
       m |-> mm,
       d |-> doy - ((153 * mp + 2) \div 5) + 1]

\* day number of the date y-m-d
DaysFromCivil(y, m, d) ==
  LET yy  == IF m <= 2 THEN y - 1 ELSE y
      era == yy \div 400
      yoe == yy % 400
      doy == ((153 * (IF m > 2 THEN m - 3 ELSE m + 9) + 2) \div 5) + d - 1
      doe == yoe * 365 + (yoe \div 4) - (yoe \div 100) + doy
  IN  era * 146097 + doe - 730425

\* Timestamp.month
MonthOf(t) == CivilFromDays(t.day).m

\* the Timestamp pandas parses from current_date.strftime("%Y-%m-01")
MonthStart(t) ==
  LET c == CivilFromDays(t.day) IN Ts(DaysFromCivil(c.y, c.m, 1), 0, 0)

(***************************************************************************)
(* Tables.                                                                 *)
(***************************************************************************)
\* f itself, as an explicitly enumerated function (evaluated once)
Concrete(f) == f @@ <<>>

\* the columns of the contract between the data source and preprocessing
RawColumns ==
  {"Task #", "Driver", "Forklift", "Workcenter", "Part No", "Status", "Name",
   "Creation Time", "Start Time", "End Time", "Distance", "Duration (m:s)"}

\* the columns the SELECT of main.py / wc_data.py returns: no duration
QueryColumns ==
  {"Task #", "Driver", "Forklift", "Workcenter", "Part No", "Status", "Name",
   "Creation Time", "Start Time", "End Time", "Distance"}

(***************************************************************************)
(* preprocessing.preprocess_task_data                                      *)
(***************************************************************************)
\* a mutation: dropna(how='all')
DropAllNull(t, cs) ==
  LET notnull(r) == r["nulls"] # cs IN SelectSeq(t, notnull)

\* tasks.dropna(): keep the rows with no null cell
dropna(t, cs) ==
  LET notnull(r) == r["nulls"] = {} IN SelectSeq(t, notnull)

new_col_names ==
  [c \in {"Duration (m:s)", "Task #", "Name", "Workcenter"} |->
     CASE c = "Duration (m:s)" -> "Duration"
       [] c = "Task #"         -> "Task No"
       [] c = "Name"           -> "Task Type"
       [] c = "Workcenter"     -> "Work Center"]

NewLabel(c) == IF c \in DOMAIN new_col_names THEN new_col_names[c] ELSE c

\* DataFrame.rename(columns=new_col_names) on one row
\* the label a renamed column had before
OldLabel(c) ==
  IF \E k \in DOMAIN new_col_names : new_col_names[k] = c
  THEN CHOOSE k \in DOMAIN new_col_names : new_col_names[k] = c
  ELSE c

RenameRow(r) ==
  Concrete([c \in {NewLabel(k) : k \in DOMAIN r} |-> r[OldLabel(c)]])

\* a mutation: the deprecated task type is kept
KeepPartReturn(t) == t

\* tasks[tasks['Task Type'] != 'Part Return']
RemovePartReturn(t) ==
  LET mask(r) == r["Task Type"] # "Part Return" IN SelectSeq(t, mask)

\* a mutation: Creation Date keeps the time of day
KeepTimeOfDay(r) ==
  ("Creation Date" :> r["Creation Time"])
  @@ ("Queue Time" :> TotalSecondsInt(r["Start Time"], r["Creation Time"]))
  @@ r

\* the two derived columns of one row
AddDerived(r) ==
  ("Creation Date" :> FloorDay(r["Creation Time"]))
  @@ ("Queue Time" :> TotalSecondsInt(r["Start Time"], r["Creation Time"]))
  @@ r

DurationOK(r) == r["Duration"] >= 10 /\ r["Duration"] <= 3600
DistanceOK(r) == r["Distance"] >= 10 /\ r["Distance"] <= 3600
\* a mutation: queue times of up to two hours are kept
QueueTimeUpTo7200(r) == r["Queue Time"] <= 7200
QueueTimeOK(r) == r["Queue Time"] <= 4500

\* a mutation: out-of-range durations are clamped into the range and kept
ClampOutliers(t) ==
  LET c1 == Concrete([i \in 1..Len(t) |->
               [t[i] EXCEPT !["Duration"] =
                  IF @ < 10 THEN 10 ELSE IF @ > 3600 THEN 3600 ELSE @]])
  IN  SelectSeq(SelectSeq(c1, DistanceOK), QueueTimeOK)

\* a mutation: the filtered table is returned in reverse order
ReorderOutliers(t) ==
  LET t3 == SelectSeq(SelectSeq(SelectSeq(t, DurationOK), DistanceOK), QueueTimeOK)
  IN  [i \in 1..Len(t3) |-> t3[Len(t3) + 1 - i]]

\* a mutation: the lower bounds of Duration and Distance are not applied
KeepShortTasks(t) ==
  LET upper(r) == r["Duration"] <= 3600 /\ r["Distance"] <= 3600
  IN  SelectSeq(SelectSeq(t, upper), QueueTimeOK)

_remove_outlier_tasks(t) ==
  SelectSeq(SelectSeq(SelectSeq(t, DurationOK), DistanceOK), QueueTimeOK)

Raised(e) == [exc |-> e, tasks |-> <<>>]

\* cs: the column labels of the raw table t.  Every table of the model has
\* at least 11 columns, so both DataFrame.insert positions (7, 11) exist.
preprocess_task_data(cs, t) ==
  LET t1   == dropna(t, cs)
      t2   == Concrete([i \in 1..Len(t1) |-> RenameRow(t1[i])])
      cs2  == {NewLabel(c) : c \in cs}
      t3   == RemovePartReturn(t2)
      conv == Concrete([i \in 1..Len(t3) |-> _convert_ms_to_s(t3[i]["Duration"])])
      bad  == {i \in 1..Len(t3) : conv[i].exc # "none"}
      t4   == Concrete([i \in 1..Len(t3) |-> [t3[i] EXCEPT !["Duration"] = conv[i].v]])
      t5   == Concrete([i \in 1..Len(t4) |-> AddDerived(t4[i])])
  IN  IF ~(DOMAIN new_col_names \subseteq cs) THEN Raised("KeyError")
      ELSE IF bad # {}
        THEN Raised(conv[CHOOSE i \in bad : \A j \in bad : i <= j].exc)
      ELSE IF ~({"Creation Time", "Start Time", "End Time"} \subseteq cs2)
        THEN Raised("KeyError")
      ELSE IF "Distance" \notin cs2 THEN Raised("KeyError")
      ELSE [exc |-> "none", tasks |-> _remove_outlier_tasks(t5)]

(***************************************************************************)
(* wc_analytics.generate_stat_block_values.  The result also records       *)
(* current_date, the function's local notion of "today".                   *)
(***************************************************************************)
StatRaised(e, d) == [op |-> "stat", exc |-> e, today |-> d, values |-> <<>>]

NoDate == Ts(0, 0, 0)

generate_stat_block_values(t) ==
  LET idx           == 1..Len(t)
      completed     == {i \in idx : t[i]["Status"] = "Completed"}
      current_date  == t[1]["Creation Date"]
      today_tasks   == {i \in idx : TsGE(t[i]["Creation Time"], current_date)}
      month_start   == MonthStart(current_date)
      current_month == MonthOf(current_date)
      tasks_completed_today  == Cardinality(today_tasks \cap completed)
      tasks_currently_queued ==
        Cardinality({i \in today_tasks : t[i]["Status"] = "Waiting"})
        + Cardinality({i \in today_tasks : t[i]["Status"] = "In-Progress"})
      tasks_completed_month  ==
        Cardinality({i \in completed : TsGE(t[i]["Creation Time"], month_start)})
      \* groupby(Creation Date).count().drop(current_date)
      day_keys    == {t[i]["Creation Date"] : i \in completed}
      other_days  == day_keys \ {current_date}
      day_total   == Cardinality({i \in completed : t[i]["Creation Date"] # current_date})
      \* groupby(Creation Time .dt.month).count().drop(current_month)
      month_keys   == {MonthOf(t[i]["Creation Time"]) : i \in completed}
      other_months == month_keys \ {current_month}
      month_total  ==
        Cardinality({i \in completed : MonthOf(t[i]["Creation Time"]) # current_month})
  IN  IF t = <<>> THEN StatRaised("IndexError", NoDate)
      ELSE IF current_date \notin day_keys THEN StatRaised("KeyError", current_date)
      ELSE IF current_month \notin month_keys THEN StatRaised("KeyError", current_date)
      \* the mean of no group is NaN, and int(NaN) raises
      ELSE IF other_days = {} \/ other_months = {}
        THEN StatRaised("ValueError", current_date)
      ELSE [op |-> "stat", exc |-> "none", today |-> current_date,
            values |-> <<tasks_completed_today, tasks_currently_queued,
                         tasks_completed_month,
                         day_total \div Cardinality(other_days),
                         month_total \div Cardinality(other_months)>>]

(***************************************************************************)
(* The lookback cutoffs built at load time (main.py, wc_data.loadData).    *)
(***************************************************************************)
end_dates(t) ==
  LET latest_date == FloorDay(t[1]["Creation Time"])
  IN  [p \in {"Full History", "Past 365-Days", "Past 90-Days",
              "Past 60-Days", "Past 30-Days"} |->
         CASE p = "Full History"  -> Ts(0, 0, 0)
           [] p = "Past 365-Days" -> MinusDays(latest_date, 365)
           [] p = "Past 90-Days"  -> MinusDays(latest_date, 90)
           [] p = "Past 60-Days"  -> MinusDays(latest_date, 60)
           [] p = "Past 30-Days"  -> MinusDays(latest_date, 30)]

(***************************************************************************)
(* get_top_10_tasks_dropdown (wc_analytics and driver_analytics hold the   *)
(* same text).  Series.value_counts() sorts the counts in descending       *)
(* order with pandas' default sort kind, quicksort, which is not stable:   *)
(* the order it leaves among part numbers of equal count is not part of    *)
(* its contract.  ValueCountsOrders is the set of orders it may return.    *)
(***************************************************************************)
\* value_counts()[:10]
TopN == 10

Window(t, end_date) ==
  LET mask(r) == TsGE(r["Creation Date"], end_date) IN SelectSeq(t, mask)

PartCount(df, p) == Cardinality({i \in 1..Len(df) : df[i]["Part No"] = p})

FirstSeen(df, p) ==
  CHOOSE i \in 1..Len(df) :
    df[i]["Part No"] = p /\ \A j \in 1..(i - 1) : df[j]["Part No"] # p

ValueCountsOrders(df) ==
  LET keys == {df[i]["Part No"] : i \in 1..Len(df)}
      n    == Cardinality(keys)
  IN  {o \in [1..n -> keys] :
         /\ \A i, j \in 1..n : i # j => o[i] # o[j]
         /\ \A i \in 1..(n - 1) : PartCount(df, o[i]) >= PartCount(df, o[i + 1])}

\* times_completed: one order of value_counts() for the window
get_top_10_tasks_dropdown(t, end_date, times_completed) ==
  LET n            == Len(times_completed)
      top          == SubSeq(times_completed, 1, IF n < TopN THEN n ELSE TopN)
      top_10_tasks == [k \in 1..Len(top) |-> EncodeTask(k, top[k])]
  IN  IF Len(top) = 0
      THEN [op |-> "top10", exc |-> "IndexError", end_date |-> end_date,
            options |-> <<>>, value |-> <<>>]
      ELSE [op |-> "top10", exc |-> "none", end_date |-> end_date,
            options |-> top_10_tasks, value |-> top_10_tasks[1]]

(***************************************************************************)
(* Columns of a table.                                                     *)
(***************************************************************************)
\* df[c] as a sequence of cells
Column(df, c) == [i \in 1..Len(df) |-> df[i][c]]

\* Series.unique(): the distinct values in order of first appearance
RECURSIVE Unique(_)
Unique(s) ==
  IF s = <<>> THEN <<>>
  ELSE LET u == Unique(SubSeq(s, 1, Len(s) - 1))
       IN  IF \E i \in 1..Len(u) : u[i] = s[Len(s)] THEN u
           ELSE Append(u, s[Len(s)])

\* position of x in the sequence s of distinct values
IndexOf(s, x) == CHOOSE i \in 1..Len(s) : s[i] = x

(***************************************************************************)
(* driver_analytics.assign_driver_colors                                   *)
(***************************************************************************)
\* plotly.express.colors.qualitative.Plotly
Plotly ==
  <<"#636EFA", "#EF553B", "#00CC96", "#AB63FA", "#FFA15A",
    "#19D3F3", "#FF6692", "#B6E880", "#FF97FF", "#FECB52">>

\* if len(driver_names) > 10
PaletteLimit == 10

\* a mutation: past the palette the colors start over
WrapColors(t) ==
  LET driver_names == Unique(Column(t, "Driver"))
  IN  [op |-> "colors", exc |-> "none",
       driver_colors |->
         [d \in {driver_names[i] : i \in 1..Len(driver_names)} |->
            Plotly[((IndexOf(driver_names, d) - 1) % Len(Plotly)) + 1]]]

assign_driver_colors(t) ==
  LET driver_names == Unique(Column(t, "Driver"))
  IN  IF Len(driver_names) > PaletteLimit
      THEN [op |-> "colors", exc |-> "ValueError", driver_colors |-> <<>>]
      ELSE IF Len(driver_names) > Len(Plotly)
      THEN [op |-> "colors", exc |-> "IndexError", driver_colors |-> <<>>]
      ELSE [op |-> "colors", exc |-> "none",
            driver_colors |->
              [d \in {driver_names[i] : i \in 1..Len(driver_names)} |->
                 Plotly[IndexOf(driver_names, d)]]]

\* driver names, in the order Python compares them
DriverRoster ==
  <<"A", "B", "C", "D", "E", "F", "G", "H", "I", "J", "K", "L", "M", "N">>

(***************************************************************************)
(* Helpers of the chart and table functions.  A function of wc_analytics   *)
(* or driver_analytics is modelled by what it hands to plotly or returns:  *)
(* an outcome [exc, fig, tasks], where fig holds the plotted frame and     *)
(* the scalars of the figure, and tasks is the Task Table object after     *)
(* the call.  DataFrame.sort_values uses a sort that is not stable, so a   *)
(* function that sorts has a set of possible outcomes, one per order of    *)
(* the rows of equal key.  The model follows pandas 1.x, where a groupby   *)
(* aggregation silently leaves out the columns it cannot aggregate.        *)
(***************************************************************************)
Outcome(e, f, t) == [exc |-> e, fig |-> f, tasks |-> t]

Completed(t) ==
  LET mask(r) == r["Status"] = "Completed" IN SelectSeq(t, mask)

CountOf(df, c, k) == Cardinality({i \in 1..Len(df) : df[i][c] = k})

RowsOf(df, c, k) == LET mask(r) == r[c] = k IN SelectSeq(df, mask)

RECURSIVE SumSeq(_)
SumSeq(s) == IF s = <<>> THEN 0 ELSE s[1] + SumSeq(Tail(s))

MaxSeq(s) == CHOOSE x \in {s[i] : i \in 1..Len(s)} : \A i \in 1..Len(s) : s[i] <= x
MinSeq(s) == CHOOSE x \in {s[i] : i \in 1..Len(s)} : \A i \in 1..Len(s) : x <= s[i]

\* the orders of the indices S in which keys is ascending
RECURSIVE IndexOrders(_, _)
IndexOrders(keys, S) ==
  IF S = {} THEN {<<>>}
  ELSE LET least == {i \in S : \A j \in S : keys[i] <= keys[j]}
       IN  UNION {{<<i>> \o o : o \in IndexOrders(keys, S \ {i})} : i \in least}

\* the orders sort_values may leave df in, keys[i] the sort key of df[i]
SortOrders(df, keys) ==
  {[k \in 1..Len(df) |-> df[o[k]]] : o \in IndexOrders(keys, 1..Len(df))}

\* the numbers of s in ascending order
SortInts(s) ==
  LET o == CHOOSE p \in IndexOrders(s, 1..Len(s)) : TRUE
  IN  [k \in 1..Len(s) |-> s[o[k]]]

\* twice the median of a non-empty sequence of integers
Median2(s) ==
  LET a == SortInts(s)
      n == Len(s)
  IN  IF n % 2 = 1 THEN 2 * a[(n + 1) \div 2]
      ELSE a[n \div 2] + a[(n \div 2) + 1]

\* n / d rounded to an integer, halves to the even neighbour (n >= 0, d > 0)
RoundHalfEven(n, d) ==
  LET q == n \div d
      r == n % d
  IN  IF 2 * r > d \/ (2 * r = d /\ q % 2 = 1) THEN q + 1 ELSE q

\* f'{n/d:.2f}' for n >= 0, d > 0
Format2f(n, d) ==
  LET h == RoundHalfEven(100 * n, d)
  IN  PyStr(h \div 100) \o <<".">> \o PyStr((h % 100) \div 10) \o PyStr(h % 10)

\* f'{n/d:.2%}'
FormatPercent(n, d) == Format2f(100 * n, d) \o <<"%">>

\* s.replace(old, new)
RECURSIVE StrReplace(_, _, _)
StrReplace(s, old, new) ==
  IF Len(s) < Len(old) THEN s
  ELSE IF SubSeq(s, 1, Len(old)) = old
    THEN new \o StrReplace(SubSeq(s, Len(old) + 1, Len(s)), old, new)
  ELSE <<s[1]>> \o StrReplace(Tail(s), old, new)

(***************************************************************************)
(* wc_analytics: _sort_wc_names, _filter_out_wc,                           *)
(* _create_shorthand_wc_names                                              *)
(***************************************************************************)
\* int(re.search(r'[0-9]+', x)[0]); a label without a digit gives None[0]
AssemblyNo(x) ==
  LET digs == {i \in 1..Len(x) : x[i] \in Digits}
      d0   == CHOOSE i \in digs : \A j \in digs : i <= j
  IN  IF digs = {} THEN [exc |-> "TypeError", v |-> 0]
      ELSE [exc |-> "none", v |-> DecVal(DigitRun(SubSeq(x, d0, Len(x))))]

_sort_wc_names(df, drop_col) ==
  LET no      == [i \in 1..Len(df) |-> AssemblyNo(df[i]["Work Center"])]
      df1     == [i \in 1..Len(df) |-> ("Assembly No" :> no[i].v) @@ df[i]]
      keys    == [i \in 1..Len(df) |-> no[i].v]
      drop(r) == [c \in (DOMAIN r) \ {"Assembly No"} |-> r[c]]
  IN  IF \E i \in 1..Len(df) : no[i].exc # "none"
      THEN {[exc |-> "TypeError", df |-> <<>>]}
      ELSE {[exc |-> "none",
             df  |-> IF drop_col THEN [i \in 1..Len(o) |-> drop(o[i])] ELSE o] :
              o \in SortOrders(df1, keys)}

\* a mutation: the upper end of the range is left out
FilterBelowUpper(df, wc_range) ==
  LET mask(r) == wc_range[1] <= r["Assembly No"] /\ r["Assembly No"] < wc_range[2]
  IN  SelectSeq(df, mask)

\* df['Assembly No'].isin(np.arange(wc_range[0], wc_range[1]+1))
_filter_out_wc(df, wc_range) ==
  LET mask(r) == r["Assembly No"] \in wc_range[1]..wc_range[2]
  IN  SelectSeq(df, mask)

AssemblyWord == <<"A", "s", "s", "e", "m", "b", "l", "y">>

_create_shorthand_wc_names(df) ==
  [i \in 1..Len(df) |->
     ("Work Center Shorthand" :> StrReplace(df[i]["Work Center"], AssemblyWord, <<"A">>))
     @@ df[i]]

\* df = _sort_wc_names(df); df = _filter_out_wc(df, wc_range);
\* df = _create_shorthand_wc_names(df)
WcAxis(df, wc_range) ==
  {IF s.exc # "none" THEN s
   ELSE [exc |-> "none",
         df  |-> _create_shorthand_wc_names(_filter_out_wc(s.df, wc_range))] :
     s \in _sort_wc_names(df, FALSE)}

(***************************************************************************)
(* wc_analytics: the charts                                                *)
(***************************************************************************)
\* groupby('Work Center', sort=False).count().reset_index()
CountByWorkCenter(df) ==
  LET wcs == Unique(Column(df, "Work Center"))
  IN  [k \in 1..Len(wcs) |->
         ("Work Center" :> wcs[k])
         @@ ("Task No" :> CountOf(df, "Work Center", wcs[k]))]

create_task_bars(t, wc_range, end_date) ==
  LET df        == Window(Completed(t), end_date)
      counts    == CountByWorkCenter(df)
      yaxis_max == MaxSeq(Column(counts, "Task No"))
  IN  IF counts = <<>> THEN {Outcome("ValueError", <<>>, t)}
      ELSE {IF a.exc # "none" THEN Outcome(a.exc, <<>>, t)
            ELSE Outcome("none", [df |-> a.df, yaxis_max |-> yaxis_max], t) :
              a \in WcAxis(counts, wc_range)}

\* the task types, in the order Python compares them
TaskTypeOrder ==
  <<"Container Move", "F/G Put Away", "Part Return", "Replenishment">>

create_task_type_bars(t, wc_range, end_date) ==
  LET df     == Window(Completed(t), end_date)
      pair   == [i \in 1..Len(df) |-> <<df[i]["Work Center"], df[i]["Task Type"]>>]
      groups == Unique(pair)
      counts == [k \in 1..Len(groups) |->
                   ("Work Center" :> groups[k][1])
                   @@ ("Task Type" :> groups[k][2])
                   @@ ("Task No" :> Cardinality({i \in 1..Len(df) : pair[i] = groups[k]}))]
      by_type(d) ==
        SortOrders(d, [i \in 1..Len(d) |->
                         d[i]["Assembly No"] * (Len(TaskTypeOrder) + 1)
                         + IndexOf(TaskTypeOrder, d[i]["Task Type"])])
  IN  UNION {IF s.exc # "none" THEN {Outcome(s.exc, <<>>, t)}
             ELSE {Outcome("none",
                           [df |-> _create_shorthand_wc_names(_filter_out_wc(o, wc_range))],
                           t) : o \in by_type(s.df)} :
               s \in _sort_wc_names(counts, FALSE)}

\* df[df['Queue Time'] <= 10000]
QueueCap == 10000

create_queue_bars(t, wc_range, end_date) ==
  LET capped(r) == r["Queue Time"] <= QueueCap
      df        == SelectSeq(Window(t, end_date), capped)
      wcs       == Unique(Column(df, "Work Center"))
      medians   == [k \in 1..Len(wcs) |->
                      ("Work Center" :> wcs[k])
                      @@ ("Queue Time x2" :>
                            Median2(Column(RowsOf(df, "Work Center", wcs[k]), "Queue Time")))]
  IN  {IF a.exc # "none" THEN Outcome(a.exc, <<>>, t)
       ELSE Outcome("none", [df |-> a.df], t) : a \in WcAxis(medians, wc_range)}

\* the rollover chart of table t, zero-filled for the work centers all_centers
RolloverBars(t, all_centers, rollover_period, wc_range, end_date) ==
  LET over(r) == r["Queue Time"] >= rollover_period
      df      == SelectSeq(Window(t, end_date), over)
      counts  == CountByWorkCenter(df)
      zero_count_centers ==
        all_centers \ {counts[k]["Work Center"] : k \in 1..Len(counts)}
      spare   == {("Work Center" :> wc) @@ ("Task No" :> 0) : wc \in zero_count_centers}
      \* pd.concat([df, spare_df]): list(set) leaves the spare rows in any order
      concat  == {counts \o s : s \in {q \in [1..Cardinality(spare) -> spare] :
                                         \A i, j \in 1..Cardinality(spare) :
                                           i # j => q[i] # q[j]}}
  IN  UNION {{IF a.exc # "none" THEN Outcome(a.exc, <<>>, t)
              ELSE Outcome("none", [df |-> a.df], t) : a \in WcAxis(c, wc_range)} :
               c \in concat}

\* a mutation: a task queued for exactly the threshold does not count
RolloverAbove(t, rollover_period, wc_range, end_date) ==
  RolloverBars(t, {t[i]["Work Center"] : i \in 1..Len(t)},
               rollover_period + 1, wc_range, end_date)

create_rollover_queue_bars(t, rollover_period, wc_range, end_date) ==
  RolloverBars(t, {t[i]["Work Center"] : i \in 1..Len(t)},
               rollover_period, wc_range, end_date)

\* the orders Series.value_counts() may return for column c of df
CountOrders(df, c) ==
  LET keys == Unique(Column(df, c))
  IN  SortOrders(keys, [k \in 1..Len(keys) |-> 0 - CountOf(df, c, keys[k])])

create_task_type_pi(t, end_date) ==
  LET df == Window(t, end_date)
  IN  {Outcome("none",
               [df |-> [k \in 1..Len(o) |->
                          [Task_Type |-> o[k],
                           Task_No   |-> CountOf(df, "Task Type", o[k]),
                           Perc      |-> FormatPercent(CountOf(df, "Task Type", o[k]),
                                                       Len(df))]]],
               t) : o \in CountOrders(df, "Task Type")}

\* bin_count = 15
BinCount == 15

\* np.histogram(s, bins)[0] for a non-empty sequence of integers: equal-width
\* bins over [min, max], the last one closed; [min - 0.5, max + 0.5] when
\* all values are equal
Histogram(s, bins) ==
  LET lo == MinSeq(s)
      hi == MaxSeq(s)
      bin(x) == IF lo = hi THEN (bins \div 2) + 1
                ELSE IF x = hi THEN bins
                ELSE (((x - lo) * bins) \div (hi - lo)) + 1
  IN  [b \in 1..bins |-> Cardinality({i \in 1..Len(s) : bin(s[i]) = b})]

create_task_time_distrib(t, selected, end_date) ==
  LET df             == Window(t, end_date)
      info           == _parse_task_info(selected)
      rows           == RowsOf(df, "Part No", info.task_name)
      task_durations == Column(rows, "Duration")
  IN  IF info.exc # "none" THEN {Outcome(info.exc, <<>>, t)}
      ELSE IF rows = <<>> THEN {Outcome("IndexError", <<>>, t)}
      ELSE {Outcome("none",
                    [rank           |-> info.rank,
                     completed      |-> Len(task_durations),
                     task_type      |-> rows[1]["Task Type"],
                     task_durations |-> task_durations,
                     mean_time      |-> <<SumSeq(task_durations), Len(task_durations)>>,
                     median_time_x2 |-> Median2(task_durations),
                     yaxis_max      |-> MaxSeq(Histogram(task_durations, BinCount)) + 1],
                    t)}

(***************************************************************************)
(* create_efficiency_table of wc_analytics and of driver_analytics         *)
(***************************************************************************)
InsufficientData ==
  <<"I", "n", "s", "u", "f", "f", "i", "c", "i", "e", "n", "t", " ",
    "D", "a", "t", "a">>

\* a mutation: a zero sum is divided like any other
ZeroRatioText(sum, total_tasks) == Format2f(sum, total_tasks)

\* if sum != 0: f'{sum / total_tasks:.2f}' else: 'Insufficient Data'
RatioText(sum, total_tasks) ==
  IF sum # 0 THEN Format2f(sum, total_tasks) ELSE InsufficientData

\* df.groupby(c).count() / .sum() / .median() with .reset_index(): one row
\* per key, in the order keys (first appearance for sort=False, ascending
\* otherwise)
count_df(df, c, keys) ==
  [k \in 1..Len(keys) |-> (c :> keys[k]) @@ ("Task No" :> Len(RowsOf(df, c, keys[k])))]

sum_df(df, c, keys) ==
  [k \in 1..Len(keys) |->
     (c :> keys[k])
     @@ ("Duration" :> SumSeq(Column(RowsOf(df, c, keys[k]), "Duration")))
     @@ ("Distance" :> SumSeq(Column(RowsOf(df, c, keys[k]), "Distance")))]

\* Queue Time holds twice the median
median_df(df, c, keys) ==
  [k \in 1..Len(keys) |->
     (c :> keys[k])
     @@ ("Queue Time" :> Median2(Column(RowsOf(df, c, keys[k]), "Queue Time")))]

\* the loop over idx: the row built from the three frames at position idx
EfficiencyLoop(c, medians, counts, sums) ==
  [idx \in 1..Len(medians) |->
     LET total_tasks == counts[idx]["Task No"]
     IN  (c :> medians[idx][c])
         @@ ("Total Tasks" :> total_tasks)
         @@ ("Avg Queue Time x2" :> medians[idx]["Queue Time"])
         @@ ("Duration-Task Ratio" :> RatioText(sums[idx]["Duration"], total_tasks))
         @@ ("Distance-Task Ratio" :> RatioText(sums[idx]["Distance"], total_tasks))]

\* a mutation: sum_df lists the groups in the opposite order
ReversedSums(df, c, keys) ==
  LET rev == [k \in 1..Len(keys) |-> keys[Len(keys) + 1 - k]]
  IN  EfficiencyLoop(c, median_df(df, c, keys), count_df(df, c, keys),
                     sum_df(df, c, rev))

\* the efficiency rows of frame df grouped by column c, one per key of keys
EfficiencyRows(df, c, keys) ==
  EfficiencyLoop(c, median_df(df, c, keys), count_df(df, c, keys),
                 sum_df(df, c, keys))

\* a mutation: only completed tasks are counted, as the driver table does
CompletedOnlyEfficiency(t, end_date) ==
  LET df       == Window(Completed(t), end_date)
      wc_table == EfficiencyRows(df, "Work Center", Unique(Column(df, "Work Center")))
  IN  {Outcome(s.exc, s.df, t) : s \in _sort_wc_names(wc_table, TRUE)}

wc_analytics_create_efficiency_table(t, end_date) ==
  LET df       == Window(t, end_date)
      wc_table == EfficiencyRows(df, "Work Center", Unique(Column(df, "Work Center")))
  IN  {Outcome(s.exc, s.df, t) : s \in _sort_wc_names(wc_table, TRUE)}

\* the distinct drivers of df in ascending order (groupby('Driver'))
SortedDrivers(df) ==
  LET in_df(d) == \E i \in 1..Len(df) : df[i]["Driver"] = d
  IN  SelectSeq(DriverRoster, in_df)

driver_analytics_create_efficiency_table(t, end_date) ==
  LET df   == Window(Completed(t), end_date)
      rows == EfficiencyRows(df, "Driver", SortedDrivers(df))
      drop(r) == [c \in (DOMAIN r) \ {"Avg Queue Time x2"} |-> r[c]]
  IN  {Outcome("none", [k \in 1..Len(rows) |-> drop(rows[k])], t)}

(***************************************************************************)
(* driver_analytics: the charts                                            *)
(***************************************************************************)
\* tasks['Start Time'].dt.floor('d') at the index label of row r
StartDateAt(t, r) ==
  FloorDay((CHOOSE q \in {t[i] : i \in 1..Len(t)} : q["src"] = r["src"])["Start Time"])

\* groupby(['Driver', 'Start Date']).count().reset_index() of a frame that
\* has a Start Date column
CountByDriverAndDate(df, driver_colors) ==
  LET drivers == SortedDrivers(df)
      days(d) == SortInts(Unique(Column(Column(RowsOf(df, "Driver", d), "Start Date"), "day")))
      line(d) == [k \in 1..Len(days(d)) |->
                    [Driver     |-> d,
                     Start_Date |-> Ts(days(d)[k], 0, 0),
                     Task_No    |-> Cardinality({i \in 1..Len(df) :
                                       /\ df[i]["Driver"] = d
                                       /\ df[i]["Start Date"].day = days(d)[k]}),
                     color      |-> driver_colors[d]]]
      RECURSIVE Lines(_)
      Lines(k) == IF k > Len(drivers) THEN <<>>
                  ELSE line(drivers[k]) \o Lines(k + 1)
  IN  Lines(1)

\* a mutation: every completed task is drawn, whatever its Creation Date
UnwindowedTaskLines(t, end_date, driver_colors) ==
  LET df  == Completed(t)
      df2 == [i \in 1..Len(df) |-> ("Start Date" :> StartDateAt(t, df[i])) @@ df[i]]
  IN  {Outcome("none", [df |-> CountByDriverAndDate(df2, driver_colors)], t)}

\* a mutation: df is a view of tasks, so the new column lands in tasks
TaskLinesInPlace(t, end_date, driver_colors) ==
  LET df  == Window(Completed(t), end_date)
      df2 == [i \in 1..Len(df) |-> ("Start Date" :> StartDateAt(t, df[i])) @@ df[i]]
      inwin(r) == r["Status"] = "Completed" /\ TsGE(r["Creation Date"], end_date)
  IN  {Outcome("none", [df |-> CountByDriverAndDate(df2, driver_colors)],
               [i \in 1..Len(t) |->
                  IF inwin(t[i]) THEN ("Start Date" :> StartDateAt(t, t[i])) @@ t[i]
                  ELSE t[i]])}

\* df is a new frame (boolean indexing copies), so df['Start Date'] = ...
\* writes to df and leaves tasks alone
create_task_lines(t, end_date, driver_colors) ==
  LET df  == Window(Completed(t), end_date)
      df2 == [i \in 1..Len(df) |-> ("Start Date" :> StartDateAt(t, df[i])) @@ df[i]]
  IN  {Outcome("none", [df |-> CountByDriverAndDate(df2, driver_colors)], t)}

create_dur_dist_bars(t, selected, end_date, driver_colors) ==
  LET info    == _parse_task_info(selected)
      df      == RowsOf(Window(Completed(t), end_date), "Part No", info.task_name)
      drivers == SortedDrivers(df)
      \* round(mean / 60, 2) and round(mean, 2), in hundredths
      bars    == [k \in 1..Len(drivers) |->
                    LET g == RowsOf(df, "Driver", drivers[k])
                    IN  [Driver    |-> drivers[k],
                         Duration  |-> RoundHalfEven(100 * SumSeq(Column(g, "Duration")),
                                                     60 * Len(g)),
                         Distance  |-> RoundHalfEven(100 * SumSeq(Column(g, "Distance")),
                                                     Len(g)),
                         completed |-> Len(g),
                         color     |-> driver_colors[drivers[k]]]]
  IN  IF info.exc # "none" THEN {Outcome(info.exc, <<>>, t)}
      ELSE IF df = <<>> THEN {Outcome("IndexError", <<>>, t)}
      ELSE {Outcome("none",
                    [rank      |-> info.rank,
                     completed |-> Len(df),
                     task_type |-> df[1]["Task Type"],
                     bars      |-> bars,
                     mean_dur  |-> <<SumSeq(Column(bars, "Duration")), Len(bars)>>,
                     mean_dist |-> <<SumSeq(Column(bars, "Distance")), Len(bars)>>],
                    t)}

create_task_pi(t, end_date, driver_colors) ==
  LET df      == Window(Completed(t), end_date)
      drivers == SortedDrivers(df)
  IN  {Outcome("none",
               [df |-> [k \in 1..Len(drivers) |->
                          [Driver  |-> drivers[k],
                           Task_No |-> CountOf(df, "Driver", drivers[k]),
                           Perc    |-> FormatPercent(CountOf(df, "Driver", drivers[k]),
                                                     Len(df)),
                           color   |-> driver_colors[drivers[k]]]]],
               t)}

(***************************************************************************)
(* Raw tables of the model.                                                *)
(***************************************************************************)
BaseRow ==
  ("Task #" :> 0) @@ ("Driver" :> "A") @@ ("Forklift" :> "F1")
  @@ ("Workcenter" :> Assembly(2)) @@ ("Part No" :> <<"7", "A">>)
  @@ ("Status" :> "Completed") @@ ("Name" :> "Replenishment")
  @@ ("Creation Time" :> Ts(8840, 28800, 0))
  @@ ("Start Time" :> Ts(8840, 28860, 0))
  @@ ("End Time" :> Ts(8840, 28925, 0))
  @@ ("Distance" :> 50)
  @@ ("Duration (m:s)" :> <<"1", ":", "0", "5", ".", "2", "3", "0">>)
  @@ ("nulls" :> {}) @@ ("src" :> 0)

\* BaseRow with the cells of `over` replaced
With(over) == over @@ BaseRow

NullIn(c) == With("nulls" :> {c})

BadMinutes == <<"x", ":", "0", "5">>     \* "x:05"
NoColon    == <<"5">>                    \* "5"
BadSeconds == <<"1", ":", "x">>          \* "1:x"

\* rows that the null, Part Return and duration rules treat differently,
\* and rows the outlier filter drops
RowPool ==
  { BaseRow,
    With(("Driver" :> "B") @@ ("Workcenter" :> Assembly(12))
         @@ ("Part No" :> <<"7", "B">>)
         @@ ("Creation Time" :> Ts(8841, 28800, 0))
         @@ ("Start Time" :> Ts(8841, 28830, 0))
         @@ ("End Time" :> Ts(8841, 29430, 0))
         @@ ("Duration (m:s)" :> <<"1", "0", ":", "0", "0">>)),
    NullIn("Forklift"),
    With(("Status" :> "Waiting") @@ ("nulls" :> {"Start Time", "End Time"})),
    With("Name" :> "Part Return"),
    With(("Name" :> "Part Return") @@ ("Duration (m:s)" :> BadMinutes)),
    With(("nulls" :> {"Forklift"}) @@ ("Duration (m:s)" :> BadMinutes)),
    With("Distance" :> 9),
    With("Start Time" :> Ts(8840, 33301, 0)),
    With("Start Time" :> Ts(8840, 28795, 0)) }
  \cup { With("Duration (m:s)" :> d) :
           d \in {BadMinutes, NoColon, BadSeconds,
                  <<"0", ":", "0", "9">>, <<"6", "0", ":", "0", "1">>} }

\* rows on both sides of every bound of the outlier filter: durations of
\* 9, 10, 3600 and 3601 s, distances of 9, 10, 3600 and 3601, queue times of
\* 4500 s, 4501 s, 4500.5 s and -5 s
OutlierPool ==
  { BaseRow }
  \cup { With("Duration (m:s)" :> d) :
           d \in {<<"0", ":", "0", "9">>, <<"0", ":", "1", "0">>,
                  <<"6", "0", ":", "0", "0">>, <<"6", "0", ":", "0", "1">>} }
  \cup { With("Distance" :> d) : d \in {9, 10, 3600, 3601} }
  \cup { With("Start Time" :> s) :
           s \in {Ts(8840, 33300, 0), Ts(8840, 33301, 0),
                  Ts(8840, 33300, 500), Ts(8840, 28795, 0)} }

\* one row with a null in each column of the contract
NullPool == {BaseRow} \cup {NullIn(c) : c \in RawColumns}

\* rows for the schema check
SchemaPool == {BaseRow, NullIn("Forklift"), With("Name" :> "Part Return")}

\* the full contract, what the query returns, and the contract with one
\* column missing
ColumnSets == {RawColumns, QueryColumns} \cup {RawColumns \ {c} : c \in RawColumns}

\* valid rows that differ in part number, creation day and status
\* (8840 is 2024-03-15, 8841 the day after, 8795 is 2024-01-30,
\*  8474 is 2023-03-15)
ViewPool ==
  { With(("Part No" :> p)
         @@ ("Creation Time" :> Ts(d, 28800, 0))
         @@ ("Start Time" :> Ts(d, 28860, 0))
         @@ ("End Time" :> Ts(d, 28925, 0))) :
      p \in {<<"7", "A">>, <<"7", "B">>}, d \in {8840, 8841, 8795, 8474} }
  \cup { With(("Status" :> "Waiting")
              @@ ("Creation Time" :> Ts(d, 28800, 0))
              @@ ("Start Time" :> Ts(d, 28860, 0))
              @@ ("End Time" :> Ts(d, 28925, 0))) : d \in {8840, 8841} }
  \cup { With(("Status" :> "In-Progress") @@ ("Part No" :> <<"7", "B">>)) }

\* rows created at midnight, in the morning and in the last millisecond of
\* a day, started later the same day, the next day, a fraction of a second
\* later, and before they were created
DatePool ==
  { With(("Creation Time" :> c) @@ ("Start Time" :> s)) :
      c \in {Ts(8840, 0, 0), Ts(8840, 28800, 250), Ts(8840, 86399, 999)},
      s \in {Ts(8840, 28860, 0), Ts(8841, 10, 0), Ts(8840, 28795, 0)} }

\* the drivers of a raw table: n distinct drivers taken from the roster
\* starting after position k, then once more the again-th of them (if any)
DriverColumn(n, k, again) ==
  LET first == [i \in 1..n |-> DriverRoster[((k + i - 1) % Len(DriverRoster)) + 1]]
  IN  IF again = 0 THEN first ELSE Append(first, first[again])

\* valid rows that differ in work center, driver, part number, task type,
\* status, creation day (8840 and, 45 days earlier, 8795) and queue time;
\* 'Line 4' and 'Assembly 4' carry the same number
ChartPool ==
  { BaseRow,
    With(("Driver" :> "B") @@ ("Workcenter" :> Assembly(13))
         @@ ("Part No" :> <<"7", "B">>) @@ ("Name" :> "Container Move")
         @@ ("Start Time" :> Ts(8840, 30600, 0))
         @@ ("End Time" :> Ts(8840, 31200, 0))
         @@ ("Distance" :> 120)
         @@ ("Duration (m:s)" :> <<"1", "0", ":", "0", "0">>)),
    With(("Driver" :> "B") @@ ("Workcenter" :> <<"L", "i", "n", "e", " ", "4">>)
         @@ ("Part No" :> <<"7", "B">>) @@ ("Status" :> "Waiting")
         @@ ("Name" :> "F/G Put Away")
         @@ ("Start Time" :> Ts(8840, 29700, 0))),
    With(("Driver" :> "C") @@ ("Workcenter" :> Assembly(4))
         @@ ("Creation Time" :> Ts(8795, 84600, 0))
         @@ ("Start Time" :> Ts(8796, 1800, 0))
         @@ ("End Time" :> Ts(8796, 1900, 0))) }

\* two rows of ChartPool: a recent one and an old one of another driver,
\* work center and part number
CallPool ==
  { BaseRow,
    With(("Driver" :> "C") @@ ("Workcenter" :> Assembly(4))
         @@ ("Part No" :> <<"7", "B">>)
         @@ ("Creation Time" :> Ts(8795, 84600, 0))
         @@ ("Start Time" :> Ts(8796, 1800, 0))
         @@ ("End Time" :> Ts(8796, 1900, 0))) }

\* three 'Assembly 12' tasks of 60, 120 and 180 s over a distance of 50 (one
\* of them still waiting), a task of another work center, and an
\* 'Assembly 12' task created 45 days earlier
EfficiencyPool ==
  { With(("Workcenter" :> Assembly(12)) @@ ("Duration (m:s)" :> <<"1", ":", "0", "0">>)),
    With(("Workcenter" :> Assembly(12)) @@ ("Status" :> "Waiting")
         @@ ("Duration (m:s)" :> <<"2", ":", "0", "0">>)),
    With(("Workcenter" :> Assembly(12)) @@ ("Duration (m:s)" :> <<"3", ":", "0", "0">>)),
    With(("Driver" :> "B") @@ ("Distance" :> 125)),
    With(("Workcenter" :> Assembly(12)) @@ ("Distance" :> 120)
         @@ ("Creation Time" :> Ts(8795, 28800, 0))
         @@ ("Start Time" :> Ts(8795, 28860, 0))
         @@ ("End Time" :> Ts(8795, 29460, 0))
         @@ ("Duration (m:s)" :> <<"1", "0", ":", "0", "0">>)) }

\* completed tasks created on 2024-03-15 (8840), 2024-01-30 (8795),
\* 2023-03-15 (8474) and 2023-01-30 (8430), and a task waiting since
\* 2024-03-15
KpiPool ==
  { With(("Creation Time" :> Ts(d, 28800, 0))
         @@ ("Start Time" :> Ts(d, 28860, 0))
         @@ ("End Time" :> Ts(d, 28925, 0))) : d \in {8840, 8795, 8474, 8430} }
  \cup { With("Status" :> "Waiting") }

\* rows of a table handed to create_efficiency_table directly: Duration and
\* Distance are 0 or not, for two work centers and drivers.  (A table that
\* preprocess_task_data returned has no such row: its outlier filter
\* keeps Duration and Distance at 10 or above.)
RatioPool ==
  { [AddDerived(RenameRow(With(("Workcenter" :> w[1]) @@ ("Driver" :> w[2]))))
       EXCEPT !["Duration"] = dur, !["Distance"] = dist] :
      w \in {<<Assembly(2), "A">>, <<Assembly(12), "B">>},
      dur \in {0, 65}, dist \in {0, 50} }

\* rows whose Duration or Distance is 0 or just below the outlier bound,
\* next to valid rows of the same and of another work center and driver
SentinelPool ==
  { BaseRow,
    With("Distance" :> 0),
    With("Duration (m:s)" :> <<"0", ":", "0", "0">>),
    With(("Distance" :> 9) @@ ("Duration (m:s)" :> <<"0", ":", "0", "9">>)),
    With(("Distance" :> 10) @@ ("Duration (m:s)" :> <<"0", ":", "1", "0">>)),
    With(("Driver" :> "B") @@ ("Workcenter" :> Assembly(12)) @@ ("Distance" :> 0)),
    With(("Driver" :> "B") @@ ("Workcenter" :> Assembly(12))) }

\* tasks that waited 3600, 4500, 4501, 5400 and 7200 s for their start, at
\* two work centers
RolloverPool ==
  { With("Start Time" :> Ts(8840, 32400, 0)),
    With(("Workcenter" :> Assembly(12)) @@ ("Start Time" :> Ts(8840, 33300, 0))),
    With("Start Time" :> Ts(8840, 33301, 0)),
    With(("Workcenter" :> Assembly(12)) @@ ("Start Time" :> Ts(8840, 34200, 0))),
    With("Start Time" :> Ts(8840, 36000, 0)) }

\* valid rows of two part numbers created on 2024-03-15 (8840), 2024-01-30
\* (8795), 2000-07-19 (200) and 1999-12-31 (-1)
WindowPool ==
  { With(("Part No" :> p)
         @@ ("Creation Time" :> Ts(d, 28800, 0))
         @@ ("Start Time" :> Ts(d, 28860, 0))
         @@ ("End Time" :> Ts(d, 28925, 0))) :
      p \in {<<"7", "A">>, <<"7", "B">>}, d \in {8840, 8795, 200, -1} }

\* the row restricted to the columns cs
Restrict(r, cs) ==
  LET row == r
  IN  Concrete([c \in cs \cup {"nulls", "src"} |->
                  IF c = "nulls" THEN row["nulls"] \cap cs ELSE row[c]])

\* the raw table with columns cs whose rows are s[1..]; row i carries
\* Task # i and src i
RawTable(s, cs) ==
  Concrete([i \in 1..Len(s) |->
              Restrict([s[i] EXCEPT !["src"] = i, !["Task #"] = i], cs)])

(***************************************************************************)
(* Idle values of the variables a specification does not use.              *)
(***************************************************************************)
NoResult == [op |-> "none"]

PipelineIdle ==
  /\ cols = {} /\ raw = <<>> /\ phase = "raw" /\ exc = "none"
  /\ tasks = <<>> /\ out = NoResult

DurationIdle == ms = <<>> /\ total_secs = [exc |-> "pending", v |-> 0]

RankIdle ==
  /\ rank = 0 /\ part_no = <<>> /\ task_info = <<>>
  /\ parsed = [exc |-> "pending", task_name |-> <<>>, rank |-> <<>>]

\* wc_data is imported and loadData has not been called; no page is open
Tabs == {"wc", "driver"}

\* global_data = {}
EmptyDict == [k \in {} |-> 0]

NoLoad == [pc |-> "idle"]

LoaderIdle == global_data = EmptyDict /\ loader = NoLoad

GuideIdle ==
  guide = [tab \in Tabs |->
             [loaded |-> FALSE, n_clicks_open |-> 0, n_clicks_close |-> 0,
              display |-> "none"]]

AppIdle == LoaderIdle /\ GuideIdle

(***************************************************************************)
(* SpecDuration: _convert_ms_to_s on every short text and on the spec's    *)
(* two examples.                                                           *)
(***************************************************************************)
DurChars == {"0", "1", "5", ":", ".", "x"}

Example1 == <<"1", ":", "0", "5", ".", "2", "3", "0">>   \* "1:05.230"
Example2 == <<"1", "0", ":", "0", "0">>                   \* "10:00"

DurationTexts == StrUpTo(DurChars, MaxDurLen) \cup {Example1, Example2}

InitDuration ==
  /\ ms \in DurationTexts
  /\ total_secs = [exc |-> "pending", v |-> 0]
  /\ PipelineIdle /\ RankIdle /\ AppIdle

ConvertDuration ==
  /\ total_secs.exc = "pending"
  /\ total_secs' = _convert_ms_to_s(ms)
  /\ UNCHANGED <<ms, pipelineVars, rankVars, appVars>>

NextDuration == ConvertDuration

SpecDuration == InitDuration /\ [][NextDuration]_vars

(***************************************************************************)
(* SpecRank: encode (rank, part number), then parse the option back.       *)
(***************************************************************************)
PartChars == {"7", "A", ".", " ", "+"}
PartNos   == StrUpTo(PartChars, MaxPartLen)

InitRank ==
  /\ rank \in 1..TopN
  /\ part_no \in PartNos
  /\ task_info = <<>>
  /\ parsed = [exc |-> "pending", task_name |-> <<>>, rank |-> <<>>]
  /\ PipelineIdle /\ DurationIdle /\ AppIdle

EncodeOption ==
  /\ task_info = <<>>
  /\ task_info' = EncodeTask(rank, part_no)
  /\ UNCHANGED <<rank, part_no, parsed, pipelineVars, durationVars, appVars>>

ParseOption ==
  /\ task_info # <<>>
  /\ parsed.exc = "pending"
  /\ parsed' = _parse_task_info(task_info)
  /\ UNCHANGED <<rank, part_no, task_info, pipelineVars, durationVars, appVars>>

NextRank == EncodeOption \/ ParseOption

SpecRank == InitRank /\ [][NextRank]_vars

(***************************************************************************)
(* The load path: tasks = preprocessing.preprocess_task_data(tasks)        *)
(* (main.py, wc_data.loadData).                                            *)
(***************************************************************************)
InitLoad(pool, colsets, n) ==
  /\ cols \in colsets
  /\ \E k \in 0..n : \E s \in [1..k -> pool] : raw = RawTable(s, cols)
  /\ phase = "raw" /\ exc = "none" /\ tasks = <<>> /\ out = NoResult
  /\ DurationIdle /\ RankIdle /\ AppIdle

Preprocess ==
  /\ phase = "raw"
  /\ \E r \in {preprocess_task_data(cols, raw)} :
         /\ phase' = IF r.exc = "none" THEN "loaded" ELSE "raised"
         /\ exc' = r.exc
         /\ tasks' = r.tasks
  /\ UNCHANGED <<cols, raw, out, durationVars, rankVars, appVars>>

\* stat_block_values = wc_analytics.generate_stat_block_values(tasks); the
\* line before it (latest_date = tasks['Creation Time'].iloc[0]) has already
\* stopped the load on an empty table
GenerateStatBlock ==
  /\ phase = "loaded" /\ tasks # <<>>
  /\ \E r \in {generate_stat_block_values(tasks)} : out' = r
  /\ UNCHANGED <<cols, raw, phase, exc, tasks, durationVars, rankVars, appVars>>

\* the callbacks show_top_10_tasks of both tabs
ShowTop10Tasks ==
  /\ phase = "loaded" /\ tasks # <<>>
  /\ \E lookback_period \in DOMAIN end_dates(tasks) :
       LET end_date == end_dates(tasks)[lookback_period]
       IN  \E times_completed \in ValueCountsOrders(Window(tasks, end_date)) :
             out' = get_top_10_tasks_dropdown(tasks, end_date, times_completed)
  /\ UNCHANGED <<cols, raw, phase, exc, tasks, durationVars, rankVars, appVars>>

\* Spec: preprocess_task_data on rows that its rules treat differently
Init == InitLoad(RowPool, {RawColumns}, MaxRows)
Next == Preprocess
Spec == Init /\ [][Next]_vars

\* SpecOutliers: rows on both sides of every bound of the outlier filter
InitOutliers == InitLoad(OutlierPool, {RawColumns}, MaxRows)
SpecOutliers == InitOutliers /\ [][Next]_vars

\* SpecNulls: a null in each column
InitNulls == InitLoad(NullPool, {RawColumns}, MaxRows)
SpecNulls == InitNulls /\ [][Next]_vars

\* SpecSchema: one column of the contract missing from the raw table
InitSchema == InitLoad(SchemaPool, ColumnSets, MaxRows)
SpecSchema == InitSchema /\ [][Next]_vars

\* SpecDates: creation and start times around midnight and out of order
InitDates == InitLoad(DatePool, {RawColumns}, MaxRows)
SpecDates == InitDates /\ [][Next]_vars

\* driver_colors = driver_analytics.assign_driver_colors(tasks)
AssignDriverColors ==
  /\ phase = "loaded"
  /\ \E r \in {assign_driver_colors(tasks)} : out' = r
  /\ UNCHANGED <<cols, raw, phase, exc, tasks, durationVars, rankVars, appVars>>

\* SpecDrivers: tables with up to MaxDrivers distinct drivers
InitDrivers ==
  /\ cols = RawColumns
  /\ \E n \in 0..MaxDrivers : \E k \in 0..(Len(DriverRoster) - 1) :
       \E again \in 0..n :
         LET col == DriverColumn(n, k, again)
         IN  raw = RawTable([i \in 1..Len(col) |-> With("Driver" :> col[i])], cols)
  /\ phase = "raw" /\ exc = "none" /\ tasks = <<>> /\ out = NoResult
  /\ DurationIdle /\ RankIdle /\ AppIdle
NextDrivers == Preprocess \/ AssignDriverColors
SpecDrivers == InitDrivers /\ [][NextDrivers]_vars

(***************************************************************************)
(* The callbacks of main.py.  Each applies one chart or table function to  *)
(* the Task Table; out records the call and what it produced.  The         *)
(* functions are applied to every non-empty Task Table of the model.       *)
(***************************************************************************)
\* the positions of the two range sliders used by the model (min=1,
\* max=17, step=3, value=[1, 17])
WcRanges == {<<1, 17>>, <<4, 13>>, <<7, 16>>}

\* the lookback periods the chart callbacks of the model are given: the
\* rows of the model are 0 or 45 days older than the first row, so the
\* other two periods select what 'Past 60-Days' selects
Lookbacks == {"Full History", "Past 60-Days", "Past 30-Days"}

\* rollover_periods
rollover_periods ==
  [p \in {"2-Hours", "1.5-Hours", "1-Hour", "30-Mins", "15-Mins"} |->
     CASE p = "2-Hours"   -> 7200
       [] p = "1.5-Hours" -> 5400
       [] p = "1-Hour"    -> 3600
       [] p = "30-Mins"   -> 1800
       [] p = "15-Mins"   -> 900]

\* the values the task dropdown can hold: an option of the top-10 list of
\* some lookback period
TaskSelections(t) ==
  UNION {UNION {LET o == get_top_10_tasks_dropdown(t, end_dates(t)[p], tc).options
                IN  {o[k] : k \in 1..Len(o)} :
                  tc \in ValueCountsOrders(Window(t, end_dates(t)[p]))} :
           p \in DOMAIN end_dates(t)}

\* the call `name` with these arguments produced one of `outcomes`
Shown(name, end_date, wc_range, rollover_period, selected, outcomes) ==
  /\ \E r \in outcomes :
       /\ out' = [op |-> name, end_date |-> end_date, wc_range |-> wc_range,
                  rollover_period |-> rollover_period, task_info |-> selected,
                  exc |-> r.exc, fig |-> r.fig]
       /\ tasks' = r.tasks
  /\ UNCHANGED <<cols, raw, phase, exc, durationVars, rankVars, appVars>>

Serving == phase = "loaded" /\ tasks # <<>>

ShowWcTaskBars ==
  /\ Serving
  /\ \E lookback_period \in Lookbacks, wc_range \in WcRanges :
       LET end_date == end_dates(tasks)[lookback_period]
       IN  \/ Shown("create_task_type_bars", end_date, wc_range, 0, <<>>,
                    create_task_type_bars(tasks, wc_range, end_date))
           \/ Shown("create_task_bars", end_date, wc_range, 0, <<>>,
                    create_task_bars(tasks, wc_range, end_date))

ShowWcQueueBars ==
  /\ Serving
  /\ \E lookback_period \in Lookbacks, wc_range \in WcRanges :
       LET end_date == end_dates(tasks)[lookback_period]
       IN  \/ \E p \in DOMAIN rollover_periods :
                Shown("create_rollover_queue_bars", end_date, wc_range,
                      rollover_periods[p], <<>>,
                      create_rollover_queue_bars(tasks, rollover_periods[p],
                                                 wc_range, end_date))
           \/ Shown("create_queue_bars", end_date, wc_range, 0, <<>>,
                    create_queue_bars(tasks, wc_range, end_date))

ShowWcTaskTypePi ==
  /\ Serving
  /\ \E lookback_period \in Lookbacks :
       LET end_date == end_dates(tasks)[lookback_period]
       IN  Shown("create_task_type_pi", end_date, <<>>, 0, <<>>,
                 create_task_type_pi(tasks, end_date))

ShowTaskTimeDistrib ==
  /\ Serving
  /\ \E lookback_period \in Lookbacks, selected \in TaskSelections(tasks) :
       LET end_date == end_dates(tasks)[lookback_period]
       IN  Shown("create_task_time_distrib", end_date, <<>>, 0, selected,
                 create_task_time_distrib(tasks, selected, end_date))

ShowWcEfficiencyTable ==
  /\ Serving
  /\ \E lookback_period \in Lookbacks :
       LET end_date == end_dates(tasks)[lookback_period]
       IN  Shown("wc_analytics.create_efficiency_table", end_date, <<>>, 0, <<>>,
                 wc_analytics_create_efficiency_table(tasks, end_date))

ShowDriverTaskLines ==
  /\ Serving
  /\ \E lookback_period \in Lookbacks :
       LET end_date == end_dates(tasks)[lookback_period]
       IN  Shown("create_task_lines", end_date, <<>>, 0, <<>>,
                 create_task_lines(tasks, end_date,
                                   assign_driver_colors(tasks).driver_colors))

ShowDriverDistBars ==
  /\ Serving
  /\ \E lookback_period \in Lookbacks, selected \in TaskSelections(tasks) :
       LET end_date == end_dates(tasks)[lookback_period]
       IN  Shown("create_dur_dist_bars", end_date, <<>>, 0, selected,
                 create_dur_dist_bars(tasks, selected, end_date,
                                      assign_driver_colors(tasks).driver_colors))

ShowDriverEfficiencyTable ==
  /\ Serving
  /\ \E lookback_period \in Lookbacks :
       LET end_date == end_dates(tasks)[lookback_period]
       IN  Shown("driver_analytics.create_efficiency_table", end_date, <<>>, 0, <<>>,
                 driver_analytics_create_efficiency_table(tasks, end_date))

ShowDriverTaskPi ==
  /\ Serving
  /\ \E lookback_period \in Lookbacks :
       LET end_date == end_dates(tasks)[lookback_period]
       IN  Shown("create_task_pi", end_date, <<>>, 0, <<>>,
                 create_task_pi(tasks, end_date,
                                assign_driver_colors(tasks).driver_colors))

\* any callback
Callback ==
  \/ ShowWcTaskBars
  \/ ShowWcQueueBars
  \/ ShowWcTaskTypePi
  \/ ShowTop10Tasks
  \/ ShowTaskTimeDistrib
  \/ ShowWcEfficiencyTable
  \/ ShowDriverTaskLines
  \/ ShowDriverDistBars
  \/ ShowDriverEfficiencyTable
  \/ ShowDriverTaskPi

\* SpecCharts: the load, then the first callback on the loaded table
InitCharts == InitLoad(ChartPool, {RawColumns}, MaxRows)
FirstCallback == out = NoResult /\ Callback
NextCharts == Preprocess \/ FirstCallback
SpecCharts == InitCharts /\ [][NextCharts]_vars

\* SpecCalls: the load, then the callbacks in any order, any number of times
InitCalls == InitLoad(CallPool, {RawColumns}, MaxRows)
NextCalls == Preprocess \/ Callback
SpecCalls == InitCalls /\ [][NextCalls]_vars

\* SpecWcTable: the load, then the work-center efficiency table
InitWcTable == InitLoad(EfficiencyPool, {RawColumns}, MaxRows)
NextWcTable == Preprocess \/ ShowWcEfficiencyTable
SpecWcTable == InitWcTable /\ [][NextWcTable]_vars

\* SpecKpi: the load, then the KPI block
InitKpi == InitLoad(KpiPool, {RawColumns}, MaxRows)
NextKpi == Preprocess \/ GenerateStatBlock
SpecKpi == InitKpi /\ [][NextKpi]_vars

\* SpecRatios: the two efficiency tables on tables with zero sums
InitRatios ==
  /\ cols = RawColumns /\ raw = <<>> /\ phase = "loaded" /\ exc = "none"
  /\ \E k \in 1..MaxRows : \E s \in [1..k -> RatioPool] :
       tasks = [i \in 1..k |-> [s[i] EXCEPT !["src"] = i, !["Task No"] = i]]
  /\ out = NoResult
  /\ DurationIdle /\ RankIdle /\ AppIdle
NextRatios == ShowWcEfficiencyTable \/ ShowDriverEfficiencyTable
SpecRatios == InitRatios /\ [][NextRatios]_vars

\* SpecSentinel: the load of rows around the lower outlier bounds, then the
\* two efficiency tables
InitSentinel == InitLoad(SentinelPool, {RawColumns}, MaxRows)
NextSentinel == Preprocess \/ ShowWcEfficiencyTable \/ ShowDriverEfficiencyTable
SpecSentinel == InitSentinel /\ [][NextSentinel]_vars

\* SpecRollover: the load of tasks around the queue-time bound, then the
\* queue charts
InitRollover == InitLoad(RolloverPool, {RawColumns}, MaxRows)
NextRollover == Preprocess \/ (out = NoResult /\ ShowWcQueueBars)
SpecRollover == InitRollover /\ [][NextRollover]_vars

\* SpecWindows: the load of tasks of this century and the last, then the
\* top-10 dropdown
InitWindows == InitLoad(WindowPool, {RawColumns}, MaxRows)
NextWindows == Preprocess \/ ShowTop10Tasks
SpecWindows == InitWindows /\ [][NextWindows]_vars

\* SpecViews: the load, then the KPI block and the top-10 dropdown
InitViews == InitLoad(ViewPool, {RawColumns}, MaxRows)
NextViews == Preprocess \/ GenerateStatBlock \/ ShowTop10Tasks
SpecViews == InitViews /\ [][NextViews]_vars

(***************************************************************************)
(* Reading the result of the load.                                         *)
(***************************************************************************)
\* raw row j survives into the Task Table
Survives(j) == \E i \in 1..Len(tasks) : tasks[i]["src"] = j

RawRows == 1..Len(raw)

\* text is M ':' S, or M ':' S '.' fraction, the colon at i and S ending at j
IsMinSec(text, i, j) ==
  /\ 1 < i /\ i < j /\ j <= Len(text)
  /\ text[i] = ":"
  /\ IsDigits(SubSeq(text, 1, i - 1))
  /\ IsDigits(SubSeq(text, i + 1, j))
  /\ \/ j = Len(text)
     \/ /\ text[j + 1] = "."
        /\ \A k \in (j + 2)..Len(text) : text[k] \in Digits

\* the duration text is M:S or M:S.fraction
WellFormed(text) == \E i, j \in 1..Len(text) : IsMinSec(text, i, j)

(***************************************************************************)
(* C1  preprocess_task_data: a raw row with a null in any of its columns   *)
(* (the optional Forklift column included) does not appear in the          *)
(* returned Task Table.                                                    *)
(***************************************************************************)
NullRowsDropped ==
  phase = "loaded" =>
    \A j \in RawRows : raw[j]["nulls"] # {} => ~Survives(j)

\* a table with a null Forklift row and a null Distance row beside a row
\* that survives
NullRowsDroppedWitness ==
  /\ phase = "loaded"
  /\ \E j \in RawRows : raw[j]["nulls"] = {"Forklift"}
  /\ \E j \in RawRows : raw[j]["nulls"] = {"Distance"}
  /\ Len(tasks) = 1

(***************************************************************************)
(* C2  preprocess_task_data: every row of the Task Table has               *)
(* 10 <= Duration <= 3600, 10 <= Distance <= 3600 and Queue Time <= 4500;  *)
(* a raw row violating a bound is absent; a retained row carries exactly   *)
(* the Duration, Distance and Queue Time derived from its raw row.         *)
(***************************************************************************)
DerivedDuration(q)  == _convert_ms_to_s(q["Duration (m:s)"]).v
DerivedQueueTime(q) == TotalSecondsInt(q["Start Time"], q["Creation Time"])

InBounds(dur, dist, qt) ==
  /\ 10 <= dur /\ dur <= 3600
  /\ 10 <= dist /\ dist <= 3600
  /\ qt <= 4500

OutliersDroppedNotClamped ==
  phase = "loaded" =>
    /\ \A i \in 1..Len(tasks) :
         LET r == tasks[i]
             q == raw[r["src"]]
         IN  /\ InBounds(r["Duration"], r["Distance"], r["Queue Time"])
             /\ r["Duration"] = DerivedDuration(q)
             /\ r["Distance"] = q["Distance"]
             /\ r["Queue Time"] = DerivedQueueTime(q)
    /\ \A j \in RawRows :
         ~InBounds(DerivedDuration(raw[j]), raw[j]["Distance"],
                   DerivedQueueTime(raw[j])) => ~Survives(j)

\* a 3601 s row is gone, a 3600 s row and a row queued 4500.5 s are kept
OutliersDroppedWitness ==
  /\ phase = "loaded"
  /\ \E j \in RawRows : DerivedDuration(raw[j]) = 3601 /\ ~Survives(j)
  /\ \E i \in 1..Len(tasks) : tasks[i]["Duration"] = 3600
  /\ \E i \in 1..Len(tasks) :
       /\ tasks[i]["Queue Time"] = 4500
       /\ raw[tasks[i]["src"]]["Start Time"].ms = 500

(***************************************************************************)
(* C3  preprocess_task_data: no row of the Task Table has Task Type        *)
(* 'Part Return'.                                                          *)
(***************************************************************************)
NoPartReturn ==
  phase = "loaded" =>
    \A i \in 1..Len(tasks) : tasks[i]["Task Type"] # "Part Return"

\* a Part Return row without nulls was in the raw table, another row survived
NoPartReturnWitness ==
  /\ phase = "loaded"
  /\ \E j \in RawRows : raw[j]["Name"] = "Part Return" /\ raw[j]["nulls"] = {}
  /\ Len(tasks) >= 1

(***************************************************************************)
(* C4  preprocess_task_data never raises because of a malformed duration   *)
(* text: the call returns a Task Table and the malformed row is absent     *)
(* from it.                                                                *)
(***************************************************************************)
MalformedDurationExcluded ==
  phase # "raw" =>
    /\ phase = "loaded"
    /\ \A j \in RawRows :
         ~WellFormed(raw[j]["Duration (m:s)"]) => ~Survives(j)

(***************************************************************************)
(* C6  preprocess_task_data fails whenever one of the expected raw         *)
(* columns is missing; it never returns a table that lacks a column of     *)
(* the contract.                                                           *)
(***************************************************************************)
MissingColumnFails ==
  (phase # "raw" /\ cols # RawColumns /\ raw # <<>>) => phase = "raised"

(***************************************************************************)
(* C7  preprocess_task_data preserves row order: two raw rows that both    *)
(* survive appear in the Task Table in their raw order.                    *)
(***************************************************************************)
OrderPreserved ==
  phase = "loaded" =>
    \A i, j \in 1..Len(tasks) : i < j => tasks[i]["src"] < tasks[j]["src"]

\* the first and the third raw row survive, the second is dropped
OrderPreservedWitness ==
  /\ phase = "loaded"
  /\ Len(raw) = 3 /\ Len(tasks) = 2
  /\ tasks[1]["src"] = 1 /\ tasks[2]["src"] = 3

(***************************************************************************)
(* C8  The KPI block's "today" is the most recent Creation Date present    *)
(* in the Task Table, for every Task Table the load produces.              *)
(***************************************************************************)
TodayIsMostRecentDate ==
  out.op = "stat" =>
    \A i \in 1..Len(tasks) : TsGE(out.today, tasks[i]["Creation Date"])

(***************************************************************************)
(* C10  get_top_10_tasks_dropdown returns min(10, distinct part numbers    *)
(* of the window) options; option k is 'k. p', p the part number with the  *)
(* k-th highest count in the window, part numbers of equal count ranked    *)
(* by first appearance in the table; the default selection is option 1.    *)
(***************************************************************************)
\* the documented ranking: by count, then by first appearance
StableOrder(df) ==
  CHOOSE o \in ValueCountsOrders(df) :
    \A i, j \in 1..Len(o) :
      (i < j /\ PartCount(df, o[i]) = PartCount(df, o[j]))
        => FirstSeen(df, o[i]) < FirstSeen(df, o[j])

Top10RankedStably ==
  out.op = "top10" =>
    LET df == Window(tasks, out.end_date)
        o  == StableOrder(df)
        n  == IF Len(o) < 10 THEN Len(o) ELSE 10
    IN  /\ out.exc = "none"
        /\ Len(out.options) = n
        /\ \A k \in 1..n : out.options[k] = EncodeTask(k, o[k])
        /\ out.value = out.options[1]

(***************************************************************************)
(* C5  _convert_ms_to_s: a text M:S or M:S.fraction, M and S decimal       *)
(* integers, converts to 60*M + S, the fraction discarded; "1:05.230"      *)
(* gives 65 and "10:00" gives 600.                                         *)
(***************************************************************************)
ConvertTruncates ==
  total_secs.exc # "pending" =>
    /\ \A i, j \in 1..Len(ms) :
         IsMinSec(ms, i, j) =>
           /\ total_secs.exc = "none"
           /\ total_secs.v = 60 * DecVal(SubSeq(ms, 1, i - 1))
                             + DecVal(SubSeq(ms, i + 1, j))
    /\ ms = Example1 => total_secs = [exc |-> "none", v |-> 65]
    /\ ms = Example2 => total_secs = [exc |-> "none", v |-> 600]

\* "1:5.5" converted: a fraction of one half or more is present and dropped
ConvertTruncatesWitness ==
  /\ ms = <<"1", ":", "5", ".", "5">>
  /\ total_secs = [exc |-> "none", v |-> 65]

CreationDateIsMidnight ==
  phase = "loaded" =>
    \A i \in 1..Len(tasks) :
      LET r == tasks[i]
          q == raw[r["src"]]
      IN  /\ r["Creation Time"] = q["Creation Time"]
          /\ r["Creation Date"].day = q["Creation Time"].day
          /\ r["Creation Date"].sec = 0
          /\ r["Creation Date"].ms = 0
          /\ FloorDay(r["Creation Date"]) = r["Creation Date"]

\* a row created at 23:59:59.999 is in the Task Table
CreationDateWitness ==
  /\ phase = "loaded"
  /\ \E i \in 1..Len(tasks) :
       /\ tasks[i]["Creation Time"] = Ts(8840, 86399, 999)
       /\ tasks[i]["Creation Date"] = Ts(8840, 0, 0)

(***************************************************************************)
(* C16  preprocess_task_data: for every row of the Task Table, Queue Time  *)
(* is Start Time minus Creation Time in whole seconds and is not negative; *)
(* a raw row started before it was created never appears in the Task       *)
(* Table with a negative Queue Time.                                       *)
(***************************************************************************)
QueueTimeNonNegative ==
  phase = "loaded" =>
    \A i \in 1..Len(tasks) :
      /\ tasks[i]["Queue Time"] = DerivedQueueTime(raw[tasks[i]["src"]])
      /\ tasks[i]["Queue Time"] >= 0

(***************************************************************************)
(* C14  assign_driver_colors: with at most 10 distinct drivers, the i-th   *)
(* driver in order of first appearance gets the i-th palette entry, so     *)
(* distinct drivers get distinct colors; with more than 10 the call        *)
(* raises and returns no mapping; exactly 10 is accepted.                  *)
(***************************************************************************)
DriversOf(t) == {t[i]["Driver"] : i \in 1..Len(t)}

\* 1 + the number of drivers first seen before driver d is first seen
AppearanceRank(t, d) ==
  LET first(x) == CHOOSE i \in 1..Len(t) :
                    t[i]["Driver"] = x /\ \A j \in 1..(i - 1) : t[j]["Driver"] # x
  IN  1 + Cardinality({x \in DriversOf(t) : first(x) < first(d)})

PaletteInFirstAppearanceOrder ==
  out.op = "colors" =>
    IF Cardinality(DriversOf(tasks)) <= 10
    THEN /\ out.exc = "none"
         /\ DOMAIN out.driver_colors = DriversOf(tasks)
         /\ \A d \in DriversOf(tasks) :
              out.driver_colors[d] = Plotly[AppearanceRank(tasks, d)]
         /\ \A d, e \in DriversOf(tasks) :
              d # e => out.driver_colors[d] # out.driver_colors[e]
    ELSE /\ out.exc = "ValueError"
         /\ out.driver_colors = <<>>

\* exactly 10 distinct drivers, the first of them "N", one seen twice
PaletteWitness ==
  /\ out.op = "colors" /\ out.exc = "none"
  /\ Len(tasks) = 11
  /\ Cardinality(DriversOf(tasks)) = 10
  /\ tasks[1]["Driver"] = "N"
  /\ out.driver_colors["N"] = "#636EFA"
  /\ out.driver_colors["A"] = "#EF553B"

(***************************************************************************)
(* Reading the result of a chart callback.                                 *)
(***************************************************************************)
\* the first integer embedded in a label: its leftmost maximal run of digits
FirstInteger(x) ==
  LET i == CHOOSE k \in 1..Len(x) :
             x[k] \in Digits /\ \A m \in 1..(k - 1) : x[m] \notin Digits
      j == CHOOSE k \in i..Len(x) :
             /\ \A m \in i..k : x[m] \in Digits
             /\ (k = Len(x) \/ x[k + 1] \notin Digits)
  IN  DecVal(SubSeq(x, i, j))

InRange(x, wc_range) ==
  wc_range[1] <= FirstInteger(x) /\ FirstInteger(x) <= wc_range[2]

WorkCentersOf(t) == {t[i]["Work Center"] : i \in 1..Len(t)}

InWindow(r, end_date) == TsGE(r["Creation Date"], end_date)

(***************************************************************************)
(* C19  The work-center axis of a chart is ordered by the first integer    *)
(* embedded in the label, ascending, whatever the labels' string order,    *)
(* and holds exactly the work centers of the charted rows whose integer n  *)
(* satisfies lo <= n <= hi, both ends included.                            *)
(***************************************************************************)
\* the work centers of the rows the chart of out counts
ChartedWorkCenters ==
  CASE out.op = "create_task_bars" ->
         {tasks[i]["Work Center"] : i \in {k \in 1..Len(tasks) :
            /\ tasks[k]["Status"] = "Completed"
            /\ InWindow(tasks[k], out.end_date)}}
    [] out.op = "create_queue_bars" ->
         {tasks[i]["Work Center"] : i \in {k \in 1..Len(tasks) :
            InWindow(tasks[k], out.end_date)}}
    [] out.op = "create_rollover_queue_bars" -> WorkCentersOf(tasks)

WcAxisSortedAndFiltered ==
  (/\ out.op \in {"create_task_bars", "create_queue_bars", "create_rollover_queue_bars"}
   /\ out.exc = "none") =>
    LET df == out.fig.df
    IN  /\ \A i, j \in 1..Len(df) :
             i < j => FirstInteger(df[i]["Work Center"]) <= FirstInteger(df[j]["Work Center"])
        /\ {df[i]["Work Center"] : i \in 1..Len(df)}
             = {x \in ChartedWorkCenters : InRange(x, out.wc_range)}

\* range [4, 13] on a table that lists 'Assembly 13' before 'Assembly 4' and
\* also holds 'Assembly 2': the axis is 'Assembly 4', 'Assembly 13'
WcAxisWitness ==
  /\ out.op = "create_task_bars" /\ out.exc = "none"
  /\ out.wc_range = <<4, 13>>
  /\ tasks[1]["Work Center"] = Assembly(13)
  /\ Assembly(2) \in WorkCentersOf(tasks)
  /\ Column(out.fig.df, "Work Center") = <<Assembly(4), Assembly(13)>>

(***************************************************************************)
(* C13  create_rollover_queue_bars: every work center of the Task Table    *)
(* whose assembly number lies in wc_range appears exactly once, with the   *)
(* number of its rows having Creation Date >= end_date and Queue Time >=   *)
(* threshold, an explicit 0 when it has none; no other work center         *)
(* appears.                                                                *)
(***************************************************************************)
RolloverCount(wc) ==
  Cardinality({i \in 1..Len(tasks) :
                 /\ tasks[i]["Work Center"] = wc
                 /\ InWindow(tasks[i], out.end_date)
                 /\ tasks[i]["Queue Time"] >= out.rollover_period})

RolloverCountsEveryCenter ==
  out.op = "create_rollover_queue_bars" =>
    /\ out.exc = "none"
    /\ \A wc \in WorkCentersOf(tasks) :
         LET at == {i \in 1..Len(out.fig.df) : out.fig.df[i]["Work Center"] = wc}
         IN  IF InRange(wc, out.wc_range)
             THEN /\ Cardinality(at) = 1
                  /\ \A i \in at : out.fig.df[i]["Task No"] = RolloverCount(wc)
             ELSE at = {}
    /\ \A i \in 1..Len(out.fig.df) :
         out.fig.df[i]["Work Center"] \in WorkCentersOf(tasks)

\* threshold 1800 s: one work center has a task queued exactly 1800 s and
\* counts 1, another has none in the window and shows 0
RolloverWitness ==
  /\ out.op = "create_rollover_queue_bars" /\ out.exc = "none"
  /\ out.rollover_period = 1800
  /\ \E i \in 1..Len(tasks) :
       tasks[i]["Queue Time"] = 1800 /\ InWindow(tasks[i], out.end_date)
  /\ \E i, j \in 1..Len(out.fig.df) :
       /\ out.fig.df[i]["Task No"] = 1
       /\ out.fig.df[j]["Task No"] = 0
       /\ \E k \in 1..Len(tasks) :
            /\ tasks[k]["Work Center"] = out.fig.df[j]["Work Center"]
            /\ ~InWindow(tasks[k], out.end_date)

(***************************************************************************)
(* C18  Every chart and table function that takes end_date computes its    *)
(* result from the rows with Creation Date >= end_date only: the result    *)
(* on the Task Table is a result on the table cut down to those rows (the  *)
(* rollover chart still being given the work centers of the whole table    *)
(* for its zero rows).                                                     *)
(***************************************************************************)
\* what the call recorded in out may produce on table t
OutcomesOn(t) ==
  LET e      == out.end_date
      colors == assign_driver_colors(tasks).driver_colors
  IN  CASE out.op = "create_task_bars" -> create_task_bars(t, out.wc_range, e)
        [] out.op = "create_task_type_bars" -> create_task_type_bars(t, out.wc_range, e)
        [] out.op = "create_queue_bars" -> create_queue_bars(t, out.wc_range, e)
        [] out.op = "create_rollover_queue_bars" ->
             RolloverBars(t, WorkCentersOf(tasks), out.rollover_period, out.wc_range, e)
        [] out.op = "create_task_type_pi" -> create_task_type_pi(t, e)
        [] out.op = "create_task_time_distrib" ->
             create_task_time_distrib(t, out.task_info, e)
        [] out.op = "wc_analytics.create_efficiency_table" ->
             wc_analytics_create_efficiency_table(t, e)
        [] out.op = "driver_analytics.create_efficiency_table" ->
             driver_analytics_create_efficiency_table(t, e)
        [] out.op = "create_task_lines" -> create_task_lines(t, e, colors)
        [] out.op = "create_dur_dist_bars" ->
             create_dur_dist_bars(t, out.task_info, e, colors)
        [] out.op = "create_task_pi" -> create_task_pi(t, e, colors)

\* the rows of the Task Table created on or after end_date
RowsSince(end_date) ==
  LET recent(r) == InWindow(r, end_date) IN SelectSeq(tasks, recent)

OnlyWindowRowsCount ==
  /\ out.op \notin {"none", "stat", "colors", "top10"} =>
       \E r \in OutcomesOn(RowsSince(out.end_date)) :
         r.exc = out.exc /\ r.fig = out.fig
  /\ out.op = "top10" =>
       \E tc \in ValueCountsOrders(RowsSince(out.end_date)) :
         out = get_top_10_tasks_dropdown(RowsSince(out.end_date), out.end_date, tc)

\* the driver lines of the past 30 days, drawn from a table that also holds
\* a completed task created earlier
OnlyWindowRowsWitness ==
  /\ out.op = "create_task_lines" /\ out.exc = "none"
  /\ out.fig.df # <<>>
  /\ \E i \in 1..Len(tasks) :
       tasks[i]["Status"] = "Completed" /\ ~InWindow(tasks[i], out.end_date)

(***************************************************************************)
(* C20  No chart or table function changes the Task Table: after any       *)
(* sequence of callbacks it has the rows, the columns and the values the   *)
(* load gave it.                                                           *)
(***************************************************************************)
TaskTableUnchanged ==
  phase = "loaded" => tasks = preprocess_task_data(cols, raw).tasks

\* create_task_lines has drawn two tasks and the Task Table has no
\* 'Start Date' column
TaskTableUnchangedWitness ==
  /\ out.op = "create_task_lines" /\ out.exc = "none"
  /\ Len(out.fig.df) = 2
  /\ \A i \in 1..Len(tasks) : "Start Date" \notin DOMAIN tasks[i]

(***************************************************************************)
(* C11  create_efficiency_table (both variants): a group whose Duration    *)
(* sums to exactly 0 shows 'Insufficient Data' as its Duration-Task Ratio  *)
(* and no other group does; likewise the Distance-Task Ratio for a         *)
(* Distance sum of 0; each ratio is decided on its own sum.                *)
(***************************************************************************)
\* the rows of the window that the table of out groups under key k
GroupRows(k) ==
  LET wc(r)  == r["Work Center"] = k /\ InWindow(r, out.end_date)
      drv(r) == /\ r["Driver"] = k /\ InWindow(r, out.end_date)
                /\ r["Status"] = "Completed"
  IN  IF out.op = "wc_analytics.create_efficiency_table"
      THEN SelectSeq(tasks, wc) ELSE SelectSeq(tasks, drv)

GroupKey(row) ==
  IF out.op = "wc_analytics.create_efficiency_table"
  THEN row["Work Center"] ELSE row["Driver"]

ZeroSumIsInsufficientData ==
  out.op \in {"wc_analytics.create_efficiency_table",
              "driver_analytics.create_efficiency_table"} =>
    /\ out.exc = "none"
    /\ \A i \in 1..Len(out.fig) :
         LET g == GroupRows(GroupKey(out.fig[i]))
         IN  /\ Len(g) > 0
             /\ (out.fig[i]["Duration-Task Ratio"] = InsufficientData)
                  <=> (SumSeq(Column(g, "Duration")) = 0)
             /\ (out.fig[i]["Distance-Task Ratio"] = InsufficientData)
                  <=> (SumSeq(Column(g, "Distance")) = 0)

\* a work center with two tasks of Duration 0 and Distance 50
ZeroSumWitness ==
  /\ out.op = "wc_analytics.create_efficiency_table" /\ out.exc = "none"
  /\ \E i \in 1..Len(out.fig) :
       /\ out.fig[i]["Total Tasks"] = 2
       /\ out.fig[i]["Duration-Task Ratio"] = InsufficientData
       /\ out.fig[i]["Distance-Task Ratio"] = <<"5", "0", ".", "0", "0">>

(***************************************************************************)
(* C12  wc_analytics.create_efficiency_table: every work center with a     *)
(* row in the window has one row in the table, with Total Tasks the        *)
(* number of its rows in the window and the two ratios sum(Duration) /     *)
(* Total Tasks and sum(Distance) / Total Tasks shown with two decimals.    *)
(***************************************************************************)
\* text shows n/d with two decimals: digits '.' two digits, within half a
\* hundredth of n/d
IsTwoDecimalsOf(text, n, d) ==
  LET k    == Len(text) - 3
      ip   == SubSeq(text, 1, k)
      fp   == SubSeq(text, k + 2, Len(text))
      h    == 100 * DecVal(ip) + DecVal(fp)
      diff == IF 100 * n >= h * d THEN 100 * n - h * d ELSE h * d - 100 * n
  IN  /\ k >= 1
      /\ text[k + 1] = "."
      /\ IsDigits(ip) /\ IsDigits(fp)
      /\ (k = 1 \/ ip[1] # "0")
      /\ 2 * diff <= d

EfficiencyRowsAreMeans ==
  out.op = "wc_analytics.create_efficiency_table" =>
    /\ out.exc = "none"
    /\ {out.fig[i]["Work Center"] : i \in 1..Len(out.fig)}
         = {tasks[i]["Work Center"] : i \in {j \in 1..Len(tasks) :
                                               InWindow(tasks[j], out.end_date)}}
    /\ \A i, j \in 1..Len(out.fig) :
         out.fig[i]["Work Center"] = out.fig[j]["Work Center"] => i = j
    /\ \A i \in 1..Len(out.fig) :
         LET g == GroupRows(out.fig[i]["Work Center"])
         IN  /\ out.fig[i]["Total Tasks"] = Len(g)
             /\ IsTwoDecimalsOf(out.fig[i]["Duration-Task Ratio"],
                                 SumSeq(Column(g, "Duration")), Len(g))
             /\ IsTwoDecimalsOf(out.fig[i]["Distance-Task Ratio"],
                                 SumSeq(Column(g, "Distance")), Len(g))

\* three 'Assembly 12' tasks of 60, 120 and 180 s, each over a distance of
\* 50: count 3, '120.00' and '50.00'
EfficiencyExample ==
  /\ out.op = "wc_analytics.create_efficiency_table" /\ out.exc = "none"
  /\ Len(tasks) = 3
  /\ {tasks[i]["Duration"] : i \in 1..3} = {60, 120, 180}
  /\ \A i \in 1..3 :
       tasks[i]["Work Center"] = Assembly(12) /\ tasks[i]["Distance"] = 50
  /\ Len(out.fig) = 1
  /\ out.fig[1]["Work Center"] = Assembly(12)
  /\ out.fig[1]["Total Tasks"] = 3
  /\ out.fig[1]["Duration-Task Ratio"] = <<"1", "2", "0", ".", "0", "0">>
  /\ out.fig[1]["Distance-Task Ratio"] = <<"5", "0", ".", "0", "0">>

(***************************************************************************)
(* C17  generate_stat_block_values: the average per day is the mean, over  *)
(* the Creation Dates other than 'today', of the Completed tasks of that   *)
(* date; the average per month is the mean, over the calendar months       *)
(* (year and month) other than the current one, of the Completed tasks of  *)
(* that month: the same month of an earlier year is counted, as a bucket   *)
(* of its own.                                                             *)
(***************************************************************************)
CompletedRows == {i \in 1..Len(tasks) : tasks[i]["Status"] = "Completed"}

YearMonth(t) == <<CivilFromDays(t.day).y, CivilFromDays(t.day).m>>

\* the dates other than today, and the calendar months other than today's,
\* with a completed task
OtherDates ==
  {tasks[i]["Creation Date"] : i \in CompletedRows} \ {out.today}
OtherMonths ==
  {YearMonth(tasks[i]["Creation Time"]) : i \in CompletedRows} \ {YearMonth(out.today)}

AveragesSkipOnlyCurrentPeriod ==
  (out.op = "stat" /\ OtherDates # {} /\ OtherMonths # {}) =>
    /\ out.exc = "none"
    /\ out.values[4] =
         Cardinality({i \in CompletedRows : tasks[i]["Creation Date"] # out.today})
           \div Cardinality(OtherDates)
    /\ out.values[5] =
         Cardinality({i \in CompletedRows :
                        YearMonth(tasks[i]["Creation Time"]) # YearMonth(out.today)})
           \div Cardinality(OtherMonths)

(***************************************************************************)
(* C21  Every work center of the Task Table has a row in the work-center   *)
(* efficiency table and, when wc_range covers every assembly number, a bar *)
(* in create_task_bars, whatever the cutoff: also a work center without a  *)
(* (completed) task created on or after end_date.                          *)
(***************************************************************************)
\* the work centers the output of out has a row for
OutputWorkCenters ==
  IF out.op = "wc_analytics.create_efficiency_table"
  THEN {out.fig[i]["Work Center"] : i \in 1..Len(out.fig)}
  ELSE {out.fig.df[i]["Work Center"] : i \in 1..Len(out.fig.df)}

EveryKnownWorkCenterShown ==
  (/\ \/ out.op = "wc_analytics.create_efficiency_table"
      \/ out.op = "create_task_bars" /\ out.wc_range = <<1, 17>>
   /\ out.exc = "none") =>
    WorkCentersOf(tasks) \subseteq OutputWorkCenters

(***************************************************************************)
(* C22  Neither efficiency table divides by a task count of zero: every    *)
(* row of either table stands for a group of at least one task, and its    *)
(* count, its sums and its median are those of that one group.             *)
(***************************************************************************)
GroupsReadTogether ==
  out.op \in {"wc_analytics.create_efficiency_table",
              "driver_analytics.create_efficiency_table"} =>
    /\ out.exc = "none"
    /\ \A i \in 1..Len(out.fig) :
         LET g == GroupRows(GroupKey(out.fig[i]))
         IN  /\ Len(g) >= 1
             /\ out.fig[i]["Total Tasks"] = Len(g)
             /\ out.fig[i]["Duration-Task Ratio"]
                  = RatioText(SumSeq(Column(g, "Duration")), Len(g))
             /\ out.fig[i]["Distance-Task Ratio"]
                  = RatioText(SumSeq(Column(g, "Distance")), Len(g))
             /\ out.op = "wc_analytics.create_efficiency_table" =>
                  out.fig[i]["Avg Queue Time x2"] = Median2(Column(g, "Queue Time"))

\* a table of two work centers, the one seen first having two tasks and
\* the larger assembly number
GroupsReadTogetherWitness ==
  /\ out.op = "wc_analytics.create_efficiency_table" /\ out.exc = "none"
  /\ Len(out.fig) = 2
  /\ out.fig[1]["Total Tasks"] = 1 /\ out.fig[2]["Total Tasks"] = 2
  /\ tasks[1]["Work Center"] = out.fig[2]["Work Center"]
  /\ out.fig[1]["Duration-Task Ratio"] # out.fig[2]["Duration-Task Ratio"]

(***************************************************************************)
(* C23  Both efficiency tables count and sum the Completed tasks of the    *)
(* window only: a Waiting or In-Progress task adds nothing to the Total    *)
(* Tasks of its group nor to its Duration and Distance sums.               *)
(***************************************************************************)
\* the Completed rows of the window under key k of the table of out
CompletedGroupRows(k) ==
  LET done(r) == r["Status"] = "Completed" IN SelectSeq(GroupRows(k), done)

OnlyCompletedTasksCount ==
  (/\ out.op \in {"wc_analytics.create_efficiency_table",
                  "driver_analytics.create_efficiency_table"}
   /\ out.exc = "none") =>
    \A i \in 1..Len(out.fig) :
      LET g == CompletedGroupRows(GroupKey(out.fig[i]))
      IN  /\ out.fig[i]["Total Tasks"] = Len(g)
          /\ Len(g) >= 1 =>
               /\ out.fig[i]["Duration-Task Ratio"]
                    = RatioText(SumSeq(Column(g, "Duration")), Len(g))
               /\ out.fig[i]["Distance-Task Ratio"]
                    = RatioText(SumSeq(Column(g, "Distance")), Len(g))

(***************************************************************************)
(* C24  generate_stat_block_values returns five integers on every          *)
(* non-empty Task Table, without raising: also when the first row's date   *)
(* has no Completed task, and when every Completed task falls on the       *)
(* first row's date or in the first row's month.                           *)
(***************************************************************************)
StatBlockNeverRaises ==
  out.op = "stat" =>
    /\ out.exc = "none"
    /\ Len(out.values) = 5
    /\ \A i \in 1..5 : out.values[i] \in Nat

(***************************************************************************)
(* C25  Driver tab: create_dur_dist_bars, given an option of the top-10    *)
(* dropdown of the same cutoff, finds at least one row for it and does not *)
(* fail, although the dropdown ranks the part numbers of tasks of every    *)
(* status and the bars draw Completed tasks only.                          *)
(***************************************************************************)
\* the options get_top_10_tasks_dropdown may return for the cutoff end_date
OptionsAt(end_date) ==
  UNION {LET o == get_top_10_tasks_dropdown(tasks, end_date, tc).options
         IN  {o[k] : k \in 1..Len(o)} :
           tc \in ValueCountsOrders(Window(tasks, end_date))}

DropdownOptionHasBars ==
  (/\ out.op = "create_dur_dist_bars"
   /\ out.task_info \in OptionsAt(out.end_date)) =>
    /\ out.exc = "none"
    /\ out.fig.completed >= 1

(***************************************************************************)
(* C26  On a Task Table that preprocess_task_data returned, no row of      *)
(* either efficiency table shows 'Insufficient Data': every row of the     *)
(* table has Duration >= 10 and Distance >= 10, so the sums of a group     *)
(* are positive.                                                           *)
(***************************************************************************)
NoSentinelAfterPreprocess ==
  /\ phase = "loaded" =>
       \A i \in 1..Len(tasks) : tasks[i]["Duration"] >= 10 /\ tasks[i]["Distance"] >= 10
  /\ out.op \in {"wc_analytics.create_efficiency_table",
                 "driver_analytics.create_efficiency_table"} =>
       /\ out.exc = "none"
       /\ \A i \in 1..Len(out.fig) :
            /\ out.fig[i]["Duration-Task Ratio"] # InsufficientData
            /\ out.fig[i]["Distance-Task Ratio"] # InsufficientData

\* the raw table held a task of Distance 0 and one of Duration 0; the table
\* shows the work center of the task that is left
NoSentinelWitness ==
  /\ out.op = "wc_analytics.create_efficiency_table" /\ out.exc = "none"
  /\ \E i, j \in 1..Len(raw) :
       /\ raw[i]["Distance"] = 0
       /\ raw[j]["Duration (m:s)"] = <<"0", ":", "0", "0">>
  /\ Len(tasks) = 1
  /\ Len(out.fig) = 1
  /\ out.fig[1]["Total Tasks"] = 1

(***************************************************************************)
(* C27  On a Task Table that preprocess_task_data returned, the rollover   *)
(* bars of the periods '2-Hours' (7200 s) and '1.5-Hours' (5400 s) count 0 *)
(* for every work center and every cutoff, since no row has a Queue Time   *)
(* above 4500; a nonzero count is seen under 3600, 1800 or 900 only.       *)
(***************************************************************************)
LongRolloversAreZero ==
  /\ phase = "loaded" => \A i \in 1..Len(tasks) : tasks[i]["Queue Time"] <= 4500
  /\ out.op = "create_rollover_queue_bars" =>
       /\ out.exc = "none"
       /\ out.rollover_period \in {rollover_periods[p] : p \in DOMAIN rollover_periods}
       /\ \A i \in 1..Len(out.fig.df) :
            out.fig.df[i]["Task No"] # 0 => out.rollover_period \in {3600, 1800, 900}
       /\ out.rollover_period \in {7200, 5400} =>
            \A i \in 1..Len(out.fig.df) : out.fig.df[i]["Task No"] = 0

\* '1.5-Hours' on a table with a task that waited 4500 s, loaded from a raw
\* table with a task that waited 5400 s: the bar of its work center is 0
LongRolloverWitness ==
  /\ out.op = "create_rollover_queue_bars" /\ out.exc = "none"
  /\ out.rollover_period = 5400
  /\ \E i \in 1..Len(tasks) :
       tasks[i]["Queue Time"] = 4500 /\ InWindow(tasks[i], out.end_date)
  /\ \E j \in 1..Len(raw) :
       TotalSecondsInt(raw[j]["Start Time"], raw[j]["Creation Time"]) = 5400
  /\ \E k \in 1..Len(out.fig.df) :
       out.fig.df[k]["Work Center"] = Assembly(12) /\ out.fig.df[k]["Task No"] = 0

(***************************************************************************)
(* C28  For a non-empty Task Table and every cutoff built at load time     *)
(* (2000-01-01 and the first row's date minus 365, 90, 60 and 30 days),    *)
(* the window of that cutoff holds the first row, so the top-10 dropdown   *)
(* has an option and a default and does not fail; and the windows are      *)
(* nested: the rows of a shorter lookback are rows of every longer one.    *)
(***************************************************************************)
\* the lookback periods, longest first
LookbackOrder ==
  <<"Full History", "Past 365-Days", "Past 90-Days", "Past 60-Days", "Past 30-Days">>

\* the positions of the rows of the window of lookback period p
WindowRows(p) ==
  {i \in 1..Len(tasks) : InWindow(tasks[i], end_dates(tasks)[p])}

WindowsHoldFirstRowAndNest ==
  /\ (phase = "loaded" /\ tasks # <<>>) =>
       /\ \A p \in DOMAIN end_dates(tasks) : 1 \in WindowRows(p)
       /\ \A i, j \in 1..Len(LookbackOrder) :
            i < j => WindowRows(LookbackOrder[j]) \subseteq WindowRows(LookbackOrder[i])
  /\ out.op = "top10" =>
       /\ out.exc = "none"
       /\ Len(out.options) >= 1
       /\ out.value = out.options[1]

(***************************************************************************)
(* wc_data.loadData.  The call reads the table, preprocesses it and builds *)
(* driver_colors, end_dates, rollover_periods and the KPI block in locals; *)
(* any of these statements may raise, which ends the call.  It then stores *)
(* four entries into the module-level dict global_data, one assignment     *)
(* after the other, and returns.  loader holds the position of the call    *)
(* (the entry it stores next), its locals, and `before`, the dict as it    *)
(* was when the call began.  The function takes no lock and can be called  *)
(* again after it returned or raised.                                      *)
(***************************************************************************)
\* tables pd.read_sql may return: tasks of three drivers created on
\* 2024-03-15 and 2024-01-30, and a task whose duration text does not parse
LoadPool ==
  { BaseRow,
    With(("Driver" :> "C") @@ ("Workcenter" :> Assembly(4))
         @@ ("Creation Time" :> Ts(8795, 84600, 0))
         @@ ("Start Time" :> Ts(8796, 1800, 0))
         @@ ("End Time" :> Ts(8796, 1900, 0))),
    With(("Driver" :> "B")
         @@ ("Creation Time" :> Ts(8795, 28800, 0))
         @@ ("Start Time" :> Ts(8795, 28860, 0))
         @@ ("End Time" :> Ts(8795, 28925, 0))),
    With("Duration (m:s)" :> BadMinutes) }

\* the statements of loadData up to stat_block_values, on the raw table t:
\* the exception that ends the call, or the locals it goes on with
loadData(t) ==
  LET r      == preprocess_task_data(RawColumns, t)
      colors == assign_driver_colors(r.tasks)
      stat   == generate_stat_block_values(r.tasks)
  IN  IF r.exc # "none" THEN [exc |-> r.exc]
      ELSE IF colors.exc # "none" THEN [exc |-> colors.exc]
      ELSE IF r.tasks = <<>> THEN [exc |-> "IndexError"]
      ELSE IF stat.exc # "none" THEN [exc |-> stat.exc]
      ELSE [exc |-> "none", tasks |-> r.tasks,
            driver_colors |-> colors.driver_colors,
            end_dates |-> end_dates(r.tasks),
            rollover_periods |-> rollover_periods]

\* a call of loadData runs up to its first assignment to global_data
LoadCompute ==
  /\ loader.pc \in {"idle", "returned", "raised"}
  /\ \E k \in 0..MaxRows : \E s \in [1..k -> LoadPool] :
       LET l == loadData(RawTable(s, RawColumns))
       IN  loader' = IF l.exc # "none"
                     THEN [pc |-> "raised", exc |-> l.exc, before |-> global_data]
                     ELSE [pc |-> "driver_colors", locals |-> l, before |-> global_data]
  /\ UNCHANGED <<global_data, guide, pipelineVars, durationVars, rankVars>>

\* global_data[key] = <the local of that name>, then on to position next
Publish(key, next) ==
  /\ loader.pc = key
  /\ global_data' = (key :> loader.locals[key]) @@ global_data
  /\ loader' = [loader EXCEPT !.pc = next]
  /\ UNCHANGED <<guide, pipelineVars, durationVars, rankVars>>

PublishDriverColors    == Publish("driver_colors", "end_dates")
PublishEndDates        == Publish("end_dates", "rollover_periods")
PublishRolloverPeriods == Publish("rollover_periods", "tasks")
PublishTasks           == Publish("tasks", "returned")

\* SpecLoadData: loadData called any number of times, one call at a time
InitLoadData == PipelineIdle /\ DurationIdle /\ RankIdle /\ AppIdle
NextLoadData ==
  \/ LoadCompute
  \/ PublishDriverColors
  \/ PublishEndDates
  \/ PublishRolloverPeriods
  \/ PublishTasks
SpecLoadData == InitLoadData /\ [][NextLoadData]_vars

(***************************************************************************)
(* C29  loadData publishes a consistent snapshot: whenever global_data can *)
(* be observed (during a first load, during a reload, after a load that    *)
(* failed), its entries 'tasks', 'driver_colors' and 'end_dates' come from *)
(* one load, so every driver of global_data['tasks'] has an entry in       *)
(* global_data['driver_colors']; and a load that raises leaves             *)
(* global_data as it was.                                                  *)
(***************************************************************************)
\* the entries of dict g are those of one load (or g is still empty)
FromOneLoad(g) ==
  \/ DOMAIN g = {}
  \/ /\ DOMAIN g = {"driver_colors", "end_dates", "rollover_periods", "tasks"}
     /\ g["driver_colors"] = assign_driver_colors(g["tasks"]).driver_colors
     /\ g["end_dates"] = end_dates(g["tasks"])
     /\ \A i \in 1..Len(g["tasks"]) :
          g["tasks"][i]["Driver"] \in DOMAIN g["driver_colors"]

SnapshotIsConsistent ==
  /\ FromOneLoad(global_data)
  /\ loader.pc = "raised" => global_data = loader.before

(***************************************************************************)
(* The reading-guide popups (main.py).  Each tab has an open button, a     *)
(* close button and a popup.  A click raises the button's n_clicks by one; *)
(* Dash then calls the callback that has it as Input, and the callbacks    *)
(* that have that callback's Output as Input, before it serves the next    *)
(* click.  When the page opens, the buttons have no n_clicks and the       *)
(* popup has style {"display": "none"} (layouts.py); Dash calls            *)
(* close_*_reading_guide first and hands its result to                     *)
(* show_*_reading_guide.                                                   *)
(***************************************************************************)
\* a mutation: the popup opens at the second click
ShowAfterSecondClick(n_clicks_open) ==
  IF n_clicks_open > 1 THEN "block" ELSE "none"

show_wc_reading_guide(n_clicks_open) ==
  IF n_clicks_open > 0 THEN "block" ELSE "none"

close_wc_reading_guide(n_clicks_close) == 0

show_driver_reading_guide(n_clicks_open) ==
  IF n_clicks_open > 0 THEN "block" ELSE "none"

close_driver_reading_guide(n_clicks_close) == 0

\* the callbacks registered for the ids of tab
show_reading_guide(tab, n_clicks_open) ==
  IF tab = "wc" THEN show_wc_reading_guide(n_clicks_open)
  ELSE show_driver_reading_guide(n_clicks_open)

close_reading_guide(tab, n_clicks_close) ==
  IF tab = "wc" THEN close_wc_reading_guide(n_clicks_close)
  ELSE close_driver_reading_guide(n_clicks_close)

\* the page opens: the initial calls of the two callbacks of the tab
OpenPage ==
  /\ \E tab \in Tabs :
       /\ ~guide[tab].loaded
       /\ LET n == close_reading_guide(tab, guide[tab].n_clicks_close)
          IN  guide' = [guide EXCEPT ![tab] =
                          [@ EXCEPT !.loaded = TRUE, !.n_clicks_open = n,
                                    !.display = show_reading_guide(tab, n)]]
  /\ UNCHANGED <<global_data, loader, pipelineVars, durationVars, rankVars>>

\* a click on the open button
ClickOpen ==
  /\ \E tab \in Tabs :
       /\ guide[tab].loaded
       /\ guide[tab].n_clicks_open < MaxClicks
       /\ LET n == guide[tab].n_clicks_open + 1
          IN  guide' = [guide EXCEPT ![tab] =
                          [@ EXCEPT !.n_clicks_open = n,
                                    !.display = show_reading_guide(tab, n)]]
  /\ UNCHANGED <<global_data, loader, pipelineVars, durationVars, rankVars>>

\* a click on the close button: close_*_reading_guide sets the open
\* button's n_clicks, which calls show_*_reading_guide
ClickClose ==
  /\ \E tab \in Tabs :
       /\ guide[tab].loaded
       /\ guide[tab].n_clicks_close < MaxClicks
       /\ LET c == guide[tab].n_clicks_close + 1
              n == close_reading_guide(tab, c)
          IN  guide' = [guide EXCEPT ![tab] =
                          [@ EXCEPT !.n_clicks_close = c, !.n_clicks_open = n,
                                    !.display = show_reading_guide(tab, n)]]
  /\ UNCHANGED <<global_data, loader, pipelineVars, durationVars, rankVars>>

\* SpecGuide: both pages opened, then clicks in any order
InitGuide == PipelineIdle /\ DurationIdle /\ RankIdle /\ AppIdle
NextGuide == OpenPage \/ ClickOpen \/ ClickClose
SpecGuide == InitGuide /\ [][NextGuide]_vars

(***************************************************************************)
(* C30  Reading-guide popup of either tab: it is hidden at first; an open  *)
(* click shows it ('block'); a close click sets the open button's          *)
(* n_clicks to 0 and hides it; nothing else changes it.  So after any      *)
(* sequence of clicks it is shown exactly when an open click has happened  *)
(* since the last close click.                                             *)
(***************************************************************************)
OpenClicked(tab) == guide'[tab].n_clicks_open = guide[tab].n_clicks_open + 1

CloseClicked(tab) == guide'[tab].n_clicks_close = guide[tab].n_clicks_close + 1

PopupFollowsClicks ==
  /\ \A tab \in Tabs : guide[tab].display = "none"
  /\ [][\A tab \in Tabs :
          /\ OpenClicked(tab) => guide'[tab].display = "block"
          /\ CloseClicked(tab) =>
               guide'[tab].display = "none" /\ guide'[tab].n_clicks_open = 0
          /\ ~OpenClicked(tab) /\ ~CloseClicked(tab) =>
               guide'[tab].display = guide[tab].display]_vars

\* the work-center guide was opened, closed and opened again; the driver
\* guide was opened twice and then closed
PopupWitness ==
  /\ guide["wc"].display = "block"
  /\ guide["wc"].n_clicks_close = 1 /\ guide["wc"].n_clicks_open = 1
  /\ guide["driver"].display = "none"
  /\ guide["driver"].n_clicks_close = 1 /\ guide["driver"].n_clicks_open = 0

=============================================================================
